---- MODULE Spec2Model ----
(***************************************************************************)
(* Model of the alt-text processing state machine of alt_text_project:     *)
(* the upload view (views.upload_image), the synchronous attempt           *)
(* (lib/sync_processing_helpers.py), the vision client                     *)
(* (lib/openrouter_helpers.py) and the cron batch scanner                  *)
(* (scripts/process_openrouter_summaries.py).                              *)
(*                                                                         *)
(* Every handler is a sequence of steps, one per database write, file      *)
(* write or outbound call, in the order of the code.  A process holds the  *)
(* in-memory model instances the code holds (loc[p].doc, loc[p].rec);      *)
(* save(update_fields=...) copies the named fields to the stored row.      *)
(***************************************************************************)
EXTENDS Integers, Sequences, FiniteSets, TLC

----------------------------------------------------------------------------
(* Bounds *)

\* number of distinct uploaded byte contents
NumContents == 2

\* largest --batch-size the scheduler passes
MaxBatch == 2

\* number of distinct byte contents uploaded while handlers may overlap or
\* stored files may vanish
MaxRacedDocs == 1

\* number of requests and cron runs started while handlers may overlap
MaxRacedStarts == 2

----------------------------------------------------------------------------
(* Values *)

\* a null column / Python None
NULL == [null |-> TRUE]

\* a non-null value of a nullable column
Some(v) == [val |-> v]

\* datetime.datetime.now(): clock readings are not distinguished
Now == Some("now")

\* the request handlers and the cron job
WebProcs == {"web1"}
CronProcs == {"cron1"}

\* a second worker of the web server, which answers the status polls
PollProcs == {"web2"}

\* a direct caller of the library functions (a shell, another module)
LibProcs == {"lib1"}
Procs == WebProcs \cup CronProcs \cup PollProcs \cup LibProcs

\* values of settings.OPENROUTER_API_KEY
ApiKeys == {"", "test-key"}

\* values of settings.OPENROUTER_MODEL_ORDER
ModelOrders == {<<>>, <<"A">>, <<"A", "B">>}

\* the b-th distinct byte content to be uploaded, as a byte sequence
Content(b) == <<1, b>>

\* uploaded byte contents
Contents == {Content(b) : b \in 1..NumContents}

\* suffix of the uploaded file name, as characters
Suffixes == {<<".", "P", "N", "G">>}

\* request.FILES['image_file']
Uploads == [bytes : Contents, suffix : Suffixes]

----------------------------------------------------------------------------
(* Text helpers: a text is a sequence of characters or words *)

\* str.lower() on one character
LowerChar(c) ==
    CASE c = "P" -> "p"
      [] c = "N" -> "n"
      [] c = "G" -> "g"
      [] OTHER -> c

\* str.lower()
Lower(s) == [i \in 1..Len(s) |-> LowerChar(s[i])]

RECURSIVE LStrip(_, _)
\* str.lstrip(chars)
LStrip(s, chars) ==
    IF s # <<>> /\ Head(s) \in chars THEN LStrip(Tail(s), chars) ELSE s

RECURSIVE RStrip(_, _)
\* str.rstrip(chars)
RStrip(s, chars) ==
    IF s # <<>> /\ s[Len(s)] \in chars
    THEN RStrip(SubSeq(s, 1, Len(s) - 1), chars)
    ELSE s

\* whitespace characters removed by str.strip()
Whitespace == {" ", "\n"}

\* str.strip()
Strip(s) == RStrip(LStrip(s, Whitespace), Whitespace)

\* needle in haystack, for texts
Contains(haystack, needle) ==
    \E i \in 0..(Len(haystack) - Len(needle)) :
        SubSeq(haystack, i + 1, i + Len(needle)) = needle

----------------------------------------------------------------------------
(* image_helpers *)

\* size of the chunks UploadedFile.chunks() yields
ChunkSize == 1

RECURSIVE Chunks(_)
\* UploadedFile.chunks(): the bytes, split in order
Chunks(bytes) ==
    IF Len(bytes) <= ChunkSize THEN <<bytes>>
    ELSE <<SubSeq(bytes, 1, ChunkSize)>>
         \o Chunks(SubSeq(bytes, ChunkSize + 1, Len(bytes)))

RECURSIVE HashUpdate(_, _)
\* sha256_hash.update(chunk): absorbs the chunk's bytes in order
HashUpdate(h, chunk) ==
    IF chunk = <<>> THEN h
    ELSE HashUpdate((h * 31 + Head(chunk) + 1) % 65521, Tail(chunk))

\* mutant: only the last chunk is absorbed
HashChunksLastOnly(h, chunks) ==
    IF chunks = <<>> THEN h ELSE HashUpdate(h, chunks[Len(chunks)])

RECURSIVE HashChunks(_, _)
\* the loop of generate_checksum over the chunks
HashChunks(h, chunks) ==
    IF chunks = <<>> THEN h
    ELSE HashChunks(HashUpdate(h, Head(chunks)), Tail(chunks))

\* generate_checksum(file)
generate_checksum(file) == HashChunks(7, Chunks(file.bytes))

\* extension.lower().lstrip('.')
SafeExtension(extension) == LStrip(Lower(extension), {"."})

\* mutant: the extension is used as given
get_image_path_as_given(checksum, extension) ==
    <<checksum, ".", extension>>

\* get_image_path(checksum, extension): {checksum}.{ext} in the upload dir
get_image_path(checksum, extension) ==
    <<checksum, ".", SafeExtension(extension)>>

\* the path save_image_file(file, checksum, extension) writes to
save_image_path(checksum, extension) ==
    <<checksum, ".", SafeExtension(extension)>>

----------------------------------------------------------------------------
(* Exceptions and upstream responses *)

\* message of the httpx timeout exception
HttpxTimeoutText == <<"The", "read", "operation", "timed", "out">>

\* message of the httpx.HTTPStatusError raise_for_status() raises
HttpStatusText == <<"Server", "error", "500">>

\* httpx.TimeoutException raised by call_openrouter for model m
TimeoutException(m) ==
    [type |-> "TimeoutException", msg |-> HttpxTimeoutText, model |-> m]

\* httpx.HTTPStatusError raised by call_openrouter for model m
HTTPStatusError(m) ==
    [type |-> "HTTPStatusError", msg |-> HttpStatusText, model |-> m]

\* FileNotFoundError(f'Image file not found: {image_path}')
FileNotFoundError(path) ==
    [type |-> "FileNotFoundError",
     msg |-> <<"Image", "file", "not", "found", ":">> \o path,
     model |-> ""]

\* the OSError Path.read_bytes() raises on a missing file
ReadError(path) ==
    [type |-> "FileNotFoundError",
     msg |-> <<"No", "such", "file", "or", "directory", ":">> \o path,
     model |-> ""]

\* str(exc)
StrExc(exc) == exc.msg

\* a complete response of model m; the content carries surrounding whitespace
FullResponse(m) ==
    [id |-> "gen-1", provider |-> "test-provider", model |-> m,
     choices |-> <<[message |-> [content |-> [str |-> <<" ", "A", "cat", ".", "\n">>]],
                    finish_reason |-> "stop"]>>,
     usage |-> [prompt_tokens |-> 10, completion_tokens |-> 20, total_tokens |-> 30],
     created |-> 1234567890]

\* a well-formed but sparse response: no model, choices, usage or created
SparseResponse(m) == [id |-> "gen-2"]

\* the 2xx bodies the vision API may answer model m's call with
Responses(m) == {FullResponse(m), SparseResponse(m)}

\* the keys of a JSON object whose value is null; they are listed under
\* "nulls" and left out of the record
Nulls(dict) == IF "nulls" \in DOMAIN dict THEN dict.nulls ELSE {}

\* dict.get(key, default): None for a key whose value is null
Get(dict, key, default) ==
    IF key \in Nulls(dict) THEN NULL
    ELSE IF key \in DOMAIN dict THEN dict[key] ELSE default

\* an empty dict
EmptyDict == [k \in {} |-> NULL]

RECURSIVE JoinLines(_)
\* '\n'.join(texts)
JoinLines(texts) ==
    IF texts = <<>> THEN <<>>
    ELSE IF Len(texts) = 1 THEN Head(texts)
    ELSE Head(texts) \o <<"\n">> \o JoinLines(Tail(texts))

\* the text of message.content: a str, or the text parts of a list
ContentText(content) ==
    IF "parts" \in DOMAIN content
    THEN LET items == SelectSeq(content.parts, LAMBDA it : Get(it, "type", "") = "text")
             texts == [i \in 1..Len(items) |-> Get(items[i], "text", <<>>)]
         IN  Strip(JoinLines(SelectSeq(texts, LAMBDA t : t # <<>>)))
    ELSE Strip(content.str)

\* if choices: the list is there, not null and not empty
HasChoices(response_json) ==
    /\ "choices" \notin Nulls(response_json)
    /\ Get(response_json, "choices", <<>>) # <<>>

\* choices[0], or {} when the branch is not entered
FirstChoice(response_json) ==
    IF HasChoices(response_json) THEN response_json.choices[1] ELSE EmptyDict

\* what parse_openrouter_response raises: choice.get('message', {}) and
\* response_json.get('usage', {}) give None for a null value, and None has
\* no get; "" when it raises nothing
parse_raises(response_json) ==
    IF /\ HasChoices(response_json)
       /\ "message" \in Nulls(FirstChoice(response_json))
    THEN "AttributeError"
    ELSE IF "usage" \in Nulls(response_json) THEN "AttributeError"
    ELSE ""

\* parse_openrouter_response(response_json), when it raises nothing
parse_openrouter_response(response_json) ==
    LET choice == FirstChoice(response_json)
        message == Get(choice, "message", EmptyDict)
        content == Get(message, "content", [str |-> <<>>])
        usage == Get(response_json, "usage", EmptyDict)
        has_created == /\ "created" \in DOMAIN response_json
                       /\ response_json.created # 0
    IN  [alt_text |-> IF HasChoices(response_json)
                      THEN IF content = NULL THEN <<"None">>
                           ELSE ContentText(content)
                      ELSE <<>>,
         openrouter_response_id |-> Get(response_json, "id", ""),
         provider |-> Get(response_json, "provider", ""),
         model |-> Get(response_json, "model", ""),
         finish_reason |-> IF HasChoices(response_json)
                           THEN Get(choice, "finish_reason", "") ELSE "",
         openrouter_created_at |-> IF has_created THEN Some(response_json.created)
                                   ELSE NULL,
         prompt_tokens |-> Get(usage, "prompt_tokens", NULL),
         completion_tokens |-> Get(usage, "completion_tokens", NULL),
         total_tokens |-> Get(usage, "total_tokens", NULL)]

\* build_prompt(): the text of prompt.md
build_prompt == <<"Describe", "the", "image", ".">>

----------------------------------------------------------------------------
(* State *)

VARIABLES
    docs,         \* the ImageDocument table: rows in upload order, pk = index
    recs,         \* the OpenRouterAltText table: image_document pk -> row
    files,        \* the upload directory: path -> bytes
    pc,           \* each process's position in its handler
    loc,          \* each process's local variables
    overlap       \* whether handlers may run concurrently, and how many more
                  \* of them may start if so; whether stored files may vanish

vars == <<docs, recs, files, pc, loc, overlap>>

\* the ImageDocument row upload_image creates
NewDocument(checksum, file) ==
    [file_checksum |-> checksum,
     file_extension |-> LStrip(Lower(file.suffix), {"."}),
     processing_status |-> "pending",
     processing_started_at |-> NULL,
     processing_error |-> NULL]

\* the OpenRouterAltText row get_or_create creates from its defaults
NewAltText(naive_now) ==
    [status |-> "processing", error |-> NULL,
     requested_at |-> naive_now, completed_at |-> NULL,
     raw_response_json |-> NULL, alt_text |-> <<>>, prompt |-> <<>>,
     openrouter_response_id |-> "", provider |-> "", model |-> "",
     finish_reason |-> "", openrouter_created_at |-> NULL,
     prompt_tokens |-> NULL, completion_tokens |-> NULL, total_tokens |-> NULL,
     cost |-> NULL]

\* the local variables of a process that runs no handler
NoLocals ==
    [file |-> NULL, checksum |-> 0, pk |-> 0, doc |-> NULL, rec |-> NULL,
     image_path |-> <<>>, api_key |-> "", model_order |-> <<>>, path |-> "",
     batch_size |-> 0, dry_run |-> FALSE, selected |-> <<>>,
     index |-> 0, called |-> <<>>, response_json |-> NULL, exc |-> NULL,
     ret |-> NULL, message |-> "", queue |-> <<>>,
     success_count |-> 0, failure_count |-> 0]

\* no handler is running
AllIdle == \A p \in Procs : pc[p] = "idle"

\* a handler may start: the server is free, or handlers may overlap
MayStart(p) ==
    /\ pc[p] = "idle"
    /\ IF overlap.enabled
       THEN overlap.starts > 0 \/ (overlap.recurring /\ p \in CronProcs)
       ELSE AllIdle

\* a handler has started; the runs of a recurring cron job are not counted
Started ==
    overlap' = IF /\ overlap.enabled
                  /\ ~(/\ overlap.recurring
                       /\ \E p \in CronProcs : pc[p] = "idle" /\ pc'[p] # "idle")
               THEN [overlap EXCEPT !.starts = @ - 1]
               ELSE overlap

\* instance.save(update_fields=fields): the named columns of the row are
\* overwritten with the in-memory instance's values
SaveFields(row, instance, fields) ==
    [f \in DOMAIN row |-> IF f \in fields THEN instance[f] ELSE row[f]]

\* the OpenRouterAltText table with row pk written
PutRec(pk, row) ==
    [d \in DOMAIN recs \cup {pk} |-> IF d = pk THEN row ELSE recs[d]]

\* mutant: the lookup never finds the stored document
FindByChecksumNever(checksum) == 0

\* ImageDocument.objects.filter(file_checksum=checksum).first(): a pk, or 0
FindByChecksum(checksum) ==
    LET found == {d \in 1..Len(docs) : docs[d].file_checksum = checksum}
    IN  IF found = {} THEN 0 ELSE CHOOSE d \in found : \A e \in found : d >= e

\* process p moves to label with its locals updated
Goto(p, label, locals) ==
    /\ pc' = [pc EXCEPT ![p] = label]
    /\ loc' = [loc EXCEPT ![p] = locals]

\* process p's handler has returned
Finish(p) == Goto(p, "idle", NoLocals)

Init ==
    /\ docs = <<>>
    /\ recs = EmptyDict
    /\ files = EmptyDict
    /\ pc = [p \in Procs |-> "idle"]
    /\ loc = [p \in Procs |-> NoLocals]
    /\ overlap = [enabled |-> FALSE, starts |-> 0, lossy |-> FALSE,
                  recurring |-> FALSE]

----------------------------------------------------------------------------
(* views.upload_image *)

\* 'Sync attempt timed out; will retry in background.'
SyncTimeoutText ==
    <<"Sync", "attempt", "timed", "out", ";", "will", "retry", "in", "background", ".">>

\* f'Failed to save file: {exc}'
SaveFailedText == <<"Failed", "to", "save", "file", ":", "No", "space", "left">>

\* the byte contents uploaded so far
Uploaded ==
    {loc[p].file.bytes : p \in {q \in WebProcs : pc[q] # "idle"}}
    \cup {files[f] : f \in DOMAIN files}
    \cup {Content(b) : b \in {c \in 1..NumContents :
              \E d \in 1..Len(docs) :
                  docs[d].file_checksum = generate_checksum([bytes |-> Content(c)])}}

\* contents are numbered in the order in which they first arrive; while
\* handlers may overlap or files may vanish only the first MaxRacedDocs
\* contents arrive
InArrivalOrder(file) ==
    \A b \in 1..NumContents :
        file.bytes = Content(b) =>
            /\ \A c \in 1..(b - 1) : Content(c) \in Uploaded
            /\ (overlap.enabled \/ overlap.lossy) => b <= MaxRacedDocs

\* mutant: a completed document is re-queued like a failed one
UploadBranchRetriesCompleted(status) ==
    CASE status \in {"pending", "processing"} -> "already being processed"
      [] status \in {"completed", "failed"} -> "reset"
      [] OTHER -> "create"

\* mutant: only 'pending' counts as being processed
UploadBranchRetriesProcessing(status) ==
    CASE status = "completed" -> "already processed"
      [] status = "pending" -> "already being processed"
      [] status \in {"processing", "failed"} -> "reset"
      [] OTHER -> "create"

\* the branch upload_image takes on the status of the document found
\* ("" when there is none): an early redirect, the reset, or the create
UploadBranch(status) ==
    CASE status = "completed" -> "already processed"
      [] status \in {"pending", "processing"} -> "already being processed"
      [] status = "failed" -> "reset"
      [] OTHER -> "create"

\* POST of a valid form: checksum, lookup and the branch on the status
AcceptUpload(p, file) ==
    /\ MayStart(p)
    /\ InArrivalOrder(file)
    /\ LET checksum == generate_checksum(file)
           existing == FindByChecksum(checksum)
           status == IF existing = 0 THEN "" ELSE docs[existing].processing_status
           branch == UploadBranch(status)
           mine == [NoLocals EXCEPT !.file = file, !.checksum = checksum,
                                     !.pk = existing]
       IN  CASE branch = "reset" ->
                  Goto(p, "u_reset", [mine EXCEPT !.doc = docs[existing]])
             [] branch = "create" ->
                  Goto(p, "u_create", mine)
             [] OTHER ->
                  Goto(p, "u_return", [mine EXCEPT !.message = branch])
    /\ Started
    /\ UNCHANGED <<docs, recs, files>>

\* the web server's worker takes an upload request
UploadBegin(p, file) == p \in WebProcs /\ AcceptUpload(p, file)

\* the web server's second worker takes an upload request
SecondUploadBegin(p, file) == p \in PollProcs /\ AcceptUpload(p, file)

\* mutant: processing_error is left out of update_fields
UploadResetKeepsError(p) ==
    /\ pc[p] = "u_reset"
    /\ LET doc == [loc[p].doc EXCEPT !.processing_status = "pending",
                                     !.processing_error = NULL]
       IN  /\ docs' = [docs EXCEPT ![loc[p].pk] =
                           SaveFields(@, doc, {"processing_status"})]
           /\ Goto(p, "u_save", [loc[p] EXCEPT !.doc = doc])
    /\ UNCHANGED <<recs, files, overlap>>

\* a failed document is reset to pending
UploadReset(p) ==
    /\ pc[p] = "u_reset"
    /\ LET doc == [loc[p].doc EXCEPT !.processing_status = "pending",
                                     !.processing_error = NULL]
       IN  /\ docs' = [docs EXCEPT ![loc[p].pk] =
                           SaveFields(@, doc, {"processing_status", "processing_error"})]
           /\ Goto(p, "u_save", [loc[p] EXCEPT !.doc = doc])
    /\ UNCHANGED <<recs, files, overlap>>

\* file_checksum is a unique column: an INSERT of a checksum already stored
\* raises IntegrityError
UniqueViolation(checksum) ==
    \E d \in 1..Len(docs) : docs[d].file_checksum = checksum

\* ImageDocument.objects.create(...)
UploadCreate(p) ==
    /\ pc[p] = "u_create"
    /\ IF UniqueViolation(loc[p].checksum)
       THEN /\ Goto(p, "u_return", [loc[p] EXCEPT !.message = "IntegrityError"])
            /\ UNCHANGED docs
       ELSE LET doc == NewDocument(loc[p].checksum, loc[p].file)
            IN  /\ docs' = Append(docs, doc)
                /\ Goto(p, "u_save", [loc[p] EXCEPT !.doc = doc, !.pk = Len(docs) + 1])
    /\ UNCHANGED <<recs, files, overlap>>

\* save_image_file, and the handler of its failure
UploadSaveFile(p) ==
    /\ pc[p] = "u_save"
    /\ \/ LET image_path == save_image_path(loc[p].checksum, loc[p].doc.file_extension)
          IN  /\ files' = [f \in DOMAIN files \cup {image_path} |->
                              IF f = image_path THEN loc[p].file.bytes ELSE files[f]]
              /\ Goto(p, "s_mark", [loc[p] EXCEPT !.image_path = image_path])
              /\ UNCHANGED docs
       \/ LET doc == [loc[p].doc EXCEPT !.processing_status = "failed",
                                        !.processing_error = Some(SaveFailedText)]
          IN  /\ docs' = [docs EXCEPT ![loc[p].pk] =
                              SaveFields(@, doc, {"processing_status", "processing_error"})]
              /\ Goto(p, "u_return", [loc[p] EXCEPT !.doc = doc,
                                                     !.message = "failed to save"])
              /\ UNCHANGED files
    /\ UNCHANGED <<recs, overlap>>

\* the message chosen after attempt_synchronous_processing has returned
UploadRespond(p) ==
    /\ pc[p] = "u_respond"
    /\ Goto(p, "u_return",
            [loc[p] EXCEPT !.message =
                IF loc[p].doc.processing_status = "completed"
                THEN "processed" ELSE "processing in progress"])
    /\ UNCHANGED <<docs, recs, files, overlap>>

\* return HttpResponseRedirect(...)
UploadReturn(p) ==
    /\ pc[p] = "u_return"
    /\ Finish(p)
    /\ UNCHANGED <<docs, recs, files, overlap>>

----------------------------------------------------------------------------
(* sync_processing_helpers *)

\* attempt_synchronous_processing: the document is marked processing
SyncMark(p) ==
    /\ pc[p] = "s_mark"
    /\ LET doc == [loc[p].doc EXCEPT !.processing_status = "processing",
                                     !.processing_error = NULL,
                                     !.processing_started_at = Now]
       IN  /\ docs' = [docs EXCEPT ![loc[p].pk] =
                           SaveFields(@, doc, {"processing_status", "processing_error",
                                               "processing_started_at"})]
           /\ Goto(p, "s_creds", [loc[p] EXCEPT !.doc = doc])
    /\ UNCHANGED <<recs, files, overlap>>

\* mutant: only the API key is checked, not the model order
SyncCredentialsKeyOnly(p, api_key, model_order) ==
    /\ pc[p] = "s_creds"
    /\ LET mine == [loc[p] EXCEPT !.api_key = api_key, !.model_order = model_order,
                                   !.path = "sync"]
       IN  IF api_key = ""
           THEN Goto(p, "u_respond", [mine EXCEPT !.ret = FALSE])
           ELSE Goto(p, "s_get_or_create", mine)
    /\ UNCHANGED <<docs, recs, files, overlap>>

\* attempt_openrouter_sync: get_api_key(), get_model_order() and the
\* credentials check; the settings are those of the serving process
SyncCredentials(p, api_key, model_order) ==
    /\ pc[p] = "s_creds"
    /\ LET mine == [loc[p] EXCEPT !.api_key = api_key, !.model_order = model_order,
                                   !.path = "sync"]
       IN  IF api_key = "" \/ model_order = <<>>
           THEN Goto(p, "u_respond", [mine EXCEPT !.ret = FALSE])
           ELSE Goto(p, "s_get_or_create", mine)
    /\ UNCHANGED <<docs, recs, files, overlap>>

\* mutant: a new row is written whether or not the image has one
SyncGetOrCreateAlwaysCreates(p) ==
    /\ pc[p] = "s_get_or_create"
    /\ recs' = PutRec(loc[p].pk, NewAltText(Now))
    /\ Goto(p, "s_prompt", [loc[p] EXCEPT !.rec = NewAltText(Now)])
    /\ UNCHANGED <<docs, files, overlap>>

\* OpenRouterAltText.objects.get_or_create(image_document=doc, defaults=...)
SyncGetOrCreate(p) ==
    /\ pc[p] = "s_get_or_create"
    /\ IF loc[p].pk \in DOMAIN recs
       THEN /\ Goto(p, "s_reset", [loc[p] EXCEPT !.rec = recs[loc[p].pk]])
            /\ UNCHANGED recs
       ELSE /\ recs' = PutRec(loc[p].pk, NewAltText(Now))
            /\ Goto(p, "s_prompt", [loc[p] EXCEPT !.rec = NewAltText(Now)])
    /\ UNCHANGED <<docs, files, overlap>>

\* mutant: error is left out of update_fields
SyncResetKeepsError(p) ==
    /\ pc[p] = "s_reset"
    /\ LET rec == [loc[p].rec EXCEPT !.status = "processing", !.requested_at = Now,
                                     !.error = NULL]
       IN  /\ recs' = PutRec(loc[p].pk,
                   SaveFields(recs[loc[p].pk], rec, {"status", "requested_at"}))
           /\ Goto(p, "s_prompt", [loc[p] EXCEPT !.rec = rec])
    /\ UNCHANGED <<docs, files, overlap>>

\* an existing alt-text row is reset to processing
SyncReset(p) ==
    /\ pc[p] = "s_reset"
    /\ LET rec == [loc[p].rec EXCEPT !.status = "processing", !.requested_at = Now,
                                     !.error = NULL]
       IN  /\ recs' = PutRec(loc[p].pk,
                   SaveFields(recs[loc[p].pk], rec, {"status", "requested_at", "error"}))
           /\ Goto(p, "s_prompt", [loc[p] EXCEPT !.rec = rec])
    /\ UNCHANGED <<docs, files, overlap>>

\* the prompt is built and saved
SyncPrompt(p) ==
    /\ pc[p] = "s_prompt"
    /\ LET rec == [loc[p].rec EXCEPT !.prompt = build_prompt]
       IN  /\ recs' = PutRec(loc[p].pk, SaveFields(recs[loc[p].pk], rec, {"prompt"}))
           /\ Goto(p, "s_read", [loc[p] EXCEPT !.rec = rec])
    /\ UNCHANGED <<docs, files, overlap>>

\* build_image_data_url reads the stored file
SyncRead(p) ==
    /\ pc[p] = "s_read"
    /\ IF loc[p].image_path \in DOMAIN files
       THEN Goto(p, "call", [loc[p] EXCEPT !.index = 1, !.called = <<>>, !.exc = NULL])
       ELSE Goto(p, "s_failed_rec", [loc[p] EXCEPT !.exc = ReadError(loc[p].image_path)])
    /\ UNCHANGED <<docs, recs, files, overlap>>

----------------------------------------------------------------------------
(* openrouter_helpers *)

\* what one call_openrouter(prompt, api_key, model, ...) may raise
CallErrors(model) == {TimeoutException(model), HTTPStatusError(model)}

\* where the caller continues after a response
AfterResponse(path) ==
    IF path = "sync" THEN "s_persist"
    ELSE IF path = "batch" THEN "b_persist" ELSE "d_returned"

\* mutant: the timeout is not told apart from the other exceptions
AfterRaiseNoTimeoutClause(path, exc) ==
    IF path = "sync" THEN "s_failed_rec"
    ELSE IF path = "batch" THEN "b_failed_rec" ELSE "d_raised"

\* the except clause of the caller that catches exc
AfterRaise(path, exc) ==
    IF path = "sync"
    THEN IF exc.type = "TimeoutException" THEN "s_timeout_rec" ELSE "s_failed_rec"
    ELSE IF path = "batch" THEN "b_failed_rec" ELSE "d_raised"

\* the statements after the loop: raise last_exception if one is left,
\* else return response_json
AfterLoop(path, last_exception) ==
    IF last_exception # NULL THEN AfterRaise(path, last_exception)
    ELSE AfterResponse(path)

\* one iteration of call_openrouter_with_model_order's loop begins: the
\* request for model number index is posted and the process blocks on it;
\* with an empty order the loop body never runs and {} is returned
CallModel(p) ==
    /\ pc[p] = "call"
    /\ LET order == loc[p].model_order
       IN  IF loc[p].index > Len(order)
           THEN Goto(p, AfterLoop(loc[p].path, loc[p].exc),
                     [loc[p] EXCEPT !.response_json =
                         IF loc[p].exc = NULL THEN EmptyDict ELSE @])
           ELSE Goto(p, "await",
                     [loc[p] EXCEPT !.called = Append(@, [model |-> order[loc[p].index],
                                           outcome |-> "inflight"])])
    /\ UNCHANGED <<docs, recs, files, overlap>>

\* mutant: a response does not end the loop
CallResultNoBreak(p) ==
    /\ pc[p] = "await"
    /\ LET order == loc[p].model_order
           model == order[loc[p].index]
           n == Len(loc[p].called)
       IN  \/ \E response_json \in Responses(model) :
                Goto(p, "call",
                     [loc[p] EXCEPT !.response_json = response_json, !.exc = NULL,
                                    !.called[n].outcome = "ok",
                                    !.index = @ + 1])
           \/ \E exc \in CallErrors(model) :
                Goto(p, "call", [loc[p] EXCEPT !.exc = exc, !.index = @ + 1,
                                               !.called[n].outcome = "failed"])
    /\ UNCHANGED <<docs, recs, files, overlap>>

\* mutant: last_exception is not cleared by a later success
CallResultKeepsException(p) ==
    /\ pc[p] = "await"
    /\ LET order == loc[p].model_order
           model == order[loc[p].index]
           n == Len(loc[p].called)
       IN  \/ \E response_json \in Responses(model) :
                Goto(p, AfterLoop(loc[p].path, loc[p].exc),
                     [loc[p] EXCEPT !.response_json = response_json,
                                    !.called[n].outcome = "ok"])
           \/ \E exc \in CallErrors(model) :
                Goto(p, "call", [loc[p] EXCEPT !.exc = exc, !.index = @ + 1,
                                               !.called[n].outcome = "failed"])
    /\ UNCHANGED <<docs, recs, files, overlap>>

\* mutant: last_exception keeps the first error instead of the latest
CallResultKeepsFirstError(p) ==
    /\ pc[p] = "await"
    /\ LET order == loc[p].model_order
           model == order[loc[p].index]
           n == Len(loc[p].called)
       IN  \/ \E response_json \in Responses(model) :
                Goto(p, AfterLoop(loc[p].path, NULL),
                     [loc[p] EXCEPT !.response_json = response_json, !.exc = NULL,
                                    !.called[n].outcome = "ok"])
           \/ \E exc \in CallErrors(model) :
                Goto(p, "call", [loc[p] EXCEPT !.exc = IF @ = NULL THEN exc ELSE @,
                                               !.index = @ + 1,
                                               !.called[n].outcome = "failed"])
    /\ UNCHANGED <<docs, recs, files, overlap>>

\* mutant: a timeout, once seen, is not replaced by a later error
CallResultTimeoutSticks(p) ==
    /\ pc[p] = "await"
    /\ LET order == loc[p].model_order
           model == order[loc[p].index]
           n == Len(loc[p].called)
           timed_out == loc[p].exc # NULL /\ loc[p].exc.type = "TimeoutException"
       IN  \/ \E response_json \in Responses(model) :
                Goto(p, AfterLoop(loc[p].path, NULL),
                     [loc[p] EXCEPT !.response_json = response_json, !.exc = NULL,
                                    !.called[n].outcome = "ok"])
           \/ \E exc \in CallErrors(model) :
                Goto(p, "call", [loc[p] EXCEPT !.exc = IF timed_out THEN @ ELSE exc,
                                               !.index = @ + 1,
                                               !.called[n].outcome = "failed"])
    /\ UNCHANGED <<docs, recs, files, overlap>>

\* the posted request ends: a response clears last_exception and breaks out
\* of the loop; an exception is kept as last_exception and the loop goes on
CallResult(p) ==
    /\ pc[p] = "await"
    /\ LET order == loc[p].model_order
           model == order[loc[p].index]
           n == Len(loc[p].called)
       IN  \/ \E response_json \in Responses(model) :
                Goto(p, AfterLoop(loc[p].path, NULL),
                     [loc[p] EXCEPT !.response_json = response_json, !.exc = NULL,
                                    !.called[n].outcome = "ok"])
           \/ \E exc \in CallErrors(model) :
                Goto(p, "call", [loc[p] EXCEPT !.exc = exc, !.index = @ + 1,
                                               !.called[n].outcome = "failed"])
    /\ UNCHANGED <<docs, recs, files, overlap>>

\* mutant: the parsed alt text is not copied to the row
persist_without_alt_text(alt_text_record, response_json, parsed) ==
    [alt_text_record EXCEPT
        !.raw_response_json = Some(response_json),
        !.status = "completed",
        !.completed_at = Now,
        !.error = NULL]

\* mutant: completed_at is not assigned
persist_without_completed_at(alt_text_record, response_json, parsed) ==
    [alt_text_record EXCEPT
        !.raw_response_json = Some(response_json),
        !.alt_text = parsed.alt_text,
        !.openrouter_response_id = parsed.openrouter_response_id,
        !.provider = parsed.provider,
        !.model = parsed.model,
        !.finish_reason = parsed.finish_reason,
        !.openrouter_created_at = parsed.openrouter_created_at,
        !.prompt_tokens = parsed.prompt_tokens,
        !.completion_tokens = parsed.completion_tokens,
        !.total_tokens = parsed.total_tokens,
        !.status = "completed",
        !.error = NULL]

\* persist_openrouter_alt_text: the in-memory row after the assignments
persist_openrouter_alt_text(alt_text_record, response_json, parsed) ==
    [alt_text_record EXCEPT
        !.raw_response_json = Some(response_json),
        !.alt_text = parsed.alt_text,
        !.openrouter_response_id = parsed.openrouter_response_id,
        !.provider = parsed.provider,
        !.model = parsed.model,
        !.finish_reason = parsed.finish_reason,
        !.openrouter_created_at = parsed.openrouter_created_at,
        !.prompt_tokens = parsed.prompt_tokens,
        !.completion_tokens = parsed.completion_tokens,
        !.total_tokens = parsed.total_tokens,
        !.status = "completed",
        !.completed_at = Now,
        !.error = NULL]

----------------------------------------------------------------------------
(* sync_processing_helpers: the outcomes of the attempt *)

\* the response is parsed and persisted: save() writes every column
SyncPersist(p) ==
    /\ pc[p] = "s_persist"
    /\ LET parsed == parse_openrouter_response(loc[p].response_json)
           rec == persist_openrouter_alt_text(loc[p].rec, loc[p].response_json, parsed)
       IN  /\ recs' = PutRec(loc[p].pk, rec)
           /\ Goto(p, "s_completed", [loc[p] EXCEPT !.rec = rec])
    /\ UNCHANGED <<docs, files, overlap>>

\* the document is marked completed; returns True
SyncCompleted(p) ==
    /\ pc[p] = "s_completed"
    /\ LET doc == [loc[p].doc EXCEPT !.processing_status = "completed",
                                     !.processing_error = NULL]
       IN  /\ docs' = [docs EXCEPT ![loc[p].pk] =
                           SaveFields(@, doc, {"processing_status", "processing_error"})]
           /\ Goto(p, "u_respond", [loc[p] EXCEPT !.doc = doc, !.ret = TRUE])
    /\ UNCHANGED <<recs, files, overlap>>

\* mutant: status is left out of update_fields
SyncTimeoutRecErrorOnly(p) ==
    /\ pc[p] = "s_timeout_rec"
    /\ LET rec == [loc[p].rec EXCEPT !.status = "pending",
                                     !.error = Some(SyncTimeoutText)]
       IN  /\ recs' = PutRec(loc[p].pk,
                             SaveFields(recs[loc[p].pk], rec, {"error"}))
           /\ Goto(p, "s_timeout_doc", [loc[p] EXCEPT !.rec = rec])
    /\ UNCHANGED <<docs, files, overlap>>

\* except httpx.TimeoutException: the alt-text row goes back to pending
SyncTimeoutRec(p) ==
    /\ pc[p] = "s_timeout_rec"
    /\ LET rec == [loc[p].rec EXCEPT !.status = "pending",
                                     !.error = Some(SyncTimeoutText)]
       IN  /\ recs' = PutRec(loc[p].pk,
                             SaveFields(recs[loc[p].pk], rec, {"status", "error"}))
           /\ Goto(p, "s_timeout_doc", [loc[p] EXCEPT !.rec = rec])
    /\ UNCHANGED <<docs, files, overlap>>

\* except httpx.TimeoutException: the document goes back to pending; returns False
SyncTimeoutDoc(p) ==
    /\ pc[p] = "s_timeout_doc"
    /\ LET doc == [loc[p].doc EXCEPT !.processing_status = "pending",
                                     !.processing_started_at = NULL]
       IN  /\ docs' = [docs EXCEPT ![loc[p].pk] =
                           SaveFields(@, doc, {"processing_status",
                                               "processing_started_at"})]
           /\ Goto(p, "u_respond", [loc[p] EXCEPT !.doc = doc, !.ret = FALSE])
    /\ UNCHANGED <<recs, files, overlap>>

\* except Exception: the alt-text row is marked failed
SyncFailedRec(p) ==
    /\ pc[p] = "s_failed_rec"
    /\ LET rec == [loc[p].rec EXCEPT !.status = "failed",
                                     !.error = Some(StrExc(loc[p].exc))]
       IN  /\ recs' = PutRec(loc[p].pk,
                             SaveFields(recs[loc[p].pk], rec, {"status", "error"}))
           /\ Goto(p, "s_failed_doc", [loc[p] EXCEPT !.rec = rec])
    /\ UNCHANGED <<docs, files, overlap>>

\* mutant: processing_error is left out of update_fields
SyncFailedDocStatusOnly(p) ==
    /\ pc[p] = "s_failed_doc"
    /\ LET doc == [loc[p].doc EXCEPT !.processing_status = "failed",
                                     !.processing_error = Some(StrExc(loc[p].exc))]
       IN  /\ docs' = [docs EXCEPT ![loc[p].pk] =
                           SaveFields(@, doc, {"processing_status"})]
           /\ Goto(p, "u_respond", [loc[p] EXCEPT !.doc = doc, !.ret = FALSE])
    /\ UNCHANGED <<recs, files, overlap>>

\* except Exception: the document is marked failed; returns False
SyncFailedDoc(p) ==
    /\ pc[p] = "s_failed_doc"
    /\ LET doc == [loc[p].doc EXCEPT !.processing_status = "failed",
                                     !.processing_error = Some(StrExc(loc[p].exc))]
       IN  /\ docs' = [docs EXCEPT ![loc[p].pk] =
                           SaveFields(@, doc, {"processing_status", "processing_error"})]
           /\ Goto(p, "u_respond", [loc[p] EXCEPT !.doc = doc, !.ret = FALSE])
    /\ UNCHANGED <<recs, files, overlap>>

----------------------------------------------------------------------------
(* scripts/process_openrouter_summaries *)

\* queryset[:n]
Take(seq, n) == SubSeq(seq, 1, IF n < Len(seq) THEN n ELSE Len(seq))

\* the pks of the ImageDocument rows, order_by('uploaded_at')
ByUploadedAt == [d \in 1..Len(docs) |-> d]

RECURSIVE Dedup(_, _, _)
\* the loop of find_pending_alt_text: pks not seen before, while room is left
Dedup(pks, result, batch_size) ==
    IF pks = <<>> THEN result
    ELSE IF (\A i \in 1..Len(result) : result[i] # Head(pks))
            /\ Len(result) < batch_size
         THEN Dedup(Tail(pks), Append(result, Head(pks)), batch_size)
         ELSE Dedup(Tail(pks), result, batch_size)

\* filter(processing_status__in=['pending', 'processing'])
Active(d) == docs[d].processing_status \in {"pending", "processing"}

\* mutant: the first query does not look at the alt-text row
docs_without_alt_text_any(batch_size) ==
    Take(SelectSeq(ByUploadedAt, LAMBDA d : Active(d)), batch_size)

\* the first queryset, evaluated: active documents without an alt-text row
docs_without_alt_text(batch_size) ==
    Take(SelectSeq(ByUploadedAt, LAMBDA d : Active(d) /\ d \notin DOMAIN recs),
         batch_size)

\* mutant: only documents whose alt-text row is 'failed' are retried
docs_with_failed_alt_text(batch_size) ==
    Take(SelectSeq(ByUploadedAt,
                   LAMBDA d : /\ Active(d)
                              /\ d \in DOMAIN recs
                              /\ recs[d].status = "failed"),
         batch_size)

\* mutant: the second query does not filter on processing_status
docs_with_pending_alt_text_any_status(batch_size) ==
    Take(SelectSeq(ByUploadedAt,
                   LAMBDA d : /\ d \in DOMAIN recs
                              /\ recs[d].status \in {"pending", "failed"}),
         batch_size)

\* the second queryset, evaluated: active documents whose alt-text row is
\* 'pending' or 'failed'
docs_with_pending_alt_text(batch_size) ==
    Take(SelectSeq(ByUploadedAt,
                   LAMBDA d : /\ Active(d)
                              /\ d \in DOMAIN recs
                              /\ recs[d].status \in {"pending", "failed"}),
         batch_size)

\* find_pending_alt_text(batch_size) with both querysets evaluated against
\* the same tables: pks of the documents to process
find_pending_alt_text(batch_size) ==
    Dedup(docs_without_alt_text(batch_size) \o docs_with_pending_alt_text(batch_size),
          <<>>, batch_size)

\* the model instances a queryset yields for a list of pks
Fetched(pks) == [i \in 1..Len(pks) |-> [pk |-> pks[i], doc |-> docs[pks[i]]]]

\* process_alt_texts(batch_size, dry_run) up to the evaluation of the first
\* queryset of find_pending_alt_text; the settings are those of the cron
\* job's environment
BatchBegin(p, batch_size, dry_run, api_key, model_order) ==
    /\ p \in CronProcs
    /\ MayStart(p)
    /\ LET mine == [NoLocals EXCEPT !.api_key = api_key, !.model_order = model_order,
                                     !.path = "batch", !.batch_size = batch_size,
                                     !.dry_run = dry_run]
       IN  IF api_key = "" \/ model_order = <<>>
           THEN Goto(p, "b_return", [mine EXCEPT !.batch_size = 0, !.ret = <<0, 0>>])
           ELSE Goto(p, "b_select",
                     [mine EXCEPT !.queue = Fetched(docs_without_alt_text(batch_size))])
    /\ Started
    /\ UNCHANGED <<docs, recs, files>>

\* mutant: a dry run processes the documents it selected
BatchSelectIgnoresDryRun(p) ==
    /\ pc[p] = "b_select"
    /\ LET first == [i \in 1..Len(loc[p].queue) |-> loc[p].queue[i].pk]
           second == docs_with_pending_alt_text(loc[p].batch_size)
           found == Dedup(first \o second, <<>>, loc[p].batch_size)
           queue == [i \in 1..Len(found) |->
                        IF i <= Len(first) THEN loc[p].queue[i]
                        ELSE [pk |-> found[i], doc |-> docs[found[i]]]]
       IN  Goto(p, "b_loop", [loc[p] EXCEPT !.queue = queue, !.selected = found,
                                             !.batch_size = 0])
    /\ UNCHANGED <<docs, recs, files, overlap>>

\* the second queryset is evaluated and the two lists are merged; a dry run
\* logs the documents found and returns (0, 0)
BatchSelect(p) ==
    /\ pc[p] = "b_select"
    /\ LET first == [i \in 1..Len(loc[p].queue) |-> loc[p].queue[i].pk]
           second == docs_with_pending_alt_text(loc[p].batch_size)
           found == Dedup(first \o second, <<>>, loc[p].batch_size)
           queue == [i \in 1..Len(found) |->
                        IF i <= Len(first) THEN loc[p].queue[i]
                        ELSE [pk |-> found[i], doc |-> docs[found[i]]]]
       IN  IF loc[p].dry_run
           THEN Goto(p, "b_return",
                     [loc[p] EXCEPT !.queue = <<>>, !.selected = found,
                                    !.batch_size = 0, !.ret = <<0, 0>>])
           ELSE Goto(p, "b_loop", [loc[p] EXCEPT !.queue = queue, !.selected = found,
                                                 !.batch_size = 0])
    /\ UNCHANGED <<docs, recs, files, overlap>>

\* the next document of the loop enters process_single_alt_text: get_or_create
BatchNext(p) ==
    /\ pc[p] = "b_loop"
    /\ loc[p].queue # <<>>
    /\ LET next == Head(loc[p].queue)
           mine == [loc[p] EXCEPT !.queue = Tail(@), !.pk = next.pk, !.doc = next.doc,
                                   !.exc = NULL, !.response_json = NULL, !.index = 0,
                                   !.called = <<>>]
       IN  IF next.pk \in DOMAIN recs
           THEN /\ Goto(p, "b_reset", [mine EXCEPT !.rec = recs[next.pk]])
                /\ UNCHANGED recs
           ELSE /\ recs' = PutRec(next.pk, NewAltText(Now))
                /\ Goto(p, "b_find", [mine EXCEPT !.rec = NewAltText(Now)])
    /\ UNCHANGED <<docs, files, overlap>>

\* an existing alt-text row is reset to processing
BatchReset(p) ==
    /\ pc[p] = "b_reset"
    /\ LET rec == [loc[p].rec EXCEPT !.status = "processing", !.requested_at = Now,
                                     !.error = NULL]
       IN  /\ recs' = PutRec(loc[p].pk,
                   SaveFields(recs[loc[p].pk], rec, {"status", "requested_at", "error"}))
           /\ Goto(p, "b_find", [loc[p] EXCEPT !.rec = rec])
    /\ UNCHANGED <<docs, files, overlap>>

\* mutant: the stored file is not tested for before it is read
BatchFindSkipsExists(p) ==
    /\ pc[p] = "b_find"
    /\ LET image_path == get_image_path(loc[p].doc.file_checksum,
                                        loc[p].doc.file_extension)
           rec == [loc[p].rec EXCEPT !.prompt = build_prompt]
       IN  /\ recs' = PutRec(loc[p].pk, SaveFields(recs[loc[p].pk], rec, {"prompt"}))
           /\ Goto(p, "b_read", [loc[p] EXCEPT !.image_path = image_path, !.rec = rec])
    /\ UNCHANGED <<docs, files, overlap>>

\* the stored file is looked up; the prompt is built and saved
BatchFind(p) ==
    /\ pc[p] = "b_find"
    /\ LET image_path == get_image_path(loc[p].doc.file_checksum,
                                        loc[p].doc.file_extension)
           rec == [loc[p].rec EXCEPT !.prompt = build_prompt]
       IN  IF image_path \notin DOMAIN files
           THEN /\ Goto(p, "b_failed_rec",
                        [loc[p] EXCEPT !.image_path = image_path,
                                       !.exc = FileNotFoundError(image_path)])
                /\ UNCHANGED recs
           ELSE /\ recs' = PutRec(loc[p].pk, SaveFields(recs[loc[p].pk], rec, {"prompt"}))
                /\ Goto(p, "b_read", [loc[p] EXCEPT !.image_path = image_path,
                                                    !.rec = rec])
    /\ UNCHANGED <<docs, files, overlap>>

\* build_image_data_url reads the stored file
BatchRead(p) ==
    /\ pc[p] = "b_read"
    /\ IF loc[p].image_path \in DOMAIN files
       THEN Goto(p, "call", [loc[p] EXCEPT !.index = 1, !.called = <<>>, !.exc = NULL])
       ELSE Goto(p, "b_failed_rec", [loc[p] EXCEPT !.exc = ReadError(loc[p].image_path)])
    /\ UNCHANGED <<docs, recs, files, overlap>>

\* the response is parsed and persisted: save() writes every column
BatchPersist(p) ==
    /\ pc[p] = "b_persist"
    /\ LET parsed == parse_openrouter_response(loc[p].response_json)
           rec == persist_openrouter_alt_text(loc[p].rec, loc[p].response_json, parsed)
       IN  /\ recs' = PutRec(loc[p].pk, rec)
           /\ Goto(p, "b_completed", [loc[p] EXCEPT !.rec = rec])
    /\ UNCHANGED <<docs, files, overlap>>

\* the document is marked completed; the run counts a success
BatchCompleted(p) ==
    /\ pc[p] = "b_completed"
    /\ LET doc == [loc[p].doc EXCEPT !.processing_status = "completed",
                                     !.processing_error = NULL]
       IN  /\ docs' = [docs EXCEPT ![loc[p].pk] =
                           SaveFields(@, doc, {"processing_status", "processing_error"})]
           /\ Goto(p, "b_loop", [loc[p] EXCEPT !.doc = doc, !.success_count = @ + 1])
    /\ UNCHANGED <<recs, files, overlap>>

\* mutant: error is left out of update_fields
BatchFailedRecStatusOnly(p) ==
    /\ pc[p] = "b_failed_rec"
    /\ LET rec == [loc[p].rec EXCEPT !.status = "failed",
                                     !.error = Some(StrExc(loc[p].exc))]
       IN  /\ recs' = PutRec(loc[p].pk,
                             SaveFields(recs[loc[p].pk], rec, {"status"}))
           /\ Goto(p, "b_failed_doc", [loc[p] EXCEPT !.rec = rec])
    /\ UNCHANGED <<docs, files, overlap>>

\* except Exception: the alt-text row is marked failed
BatchFailedRec(p) ==
    /\ pc[p] = "b_failed_rec"
    /\ LET rec == [loc[p].rec EXCEPT !.status = "failed",
                                     !.error = Some(StrExc(loc[p].exc))]
       IN  /\ recs' = PutRec(loc[p].pk,
                             SaveFields(recs[loc[p].pk], rec, {"status", "error"}))
           /\ Goto(p, "b_failed_doc", [loc[p] EXCEPT !.rec = rec])
    /\ UNCHANGED <<docs, files, overlap>>

\* mutant: the failure of one document ends the loop over the documents
BatchFailedDocRaises(p) ==
    /\ pc[p] = "b_failed_doc"
    /\ LET doc == [loc[p].doc EXCEPT !.processing_status = "failed",
                                     !.processing_error = Some(StrExc(loc[p].exc))]
       IN  /\ docs' = [docs EXCEPT ![loc[p].pk] =
                           SaveFields(@, doc, {"processing_status", "processing_error"})]
           /\ Goto(p, "b_return",
                   [loc[p] EXCEPT !.doc = doc, !.queue = <<>>,
                                  !.failure_count = @ + 1,
                                  !.ret = <<loc[p].success_count,
                                            loc[p].failure_count + 1>>])
    /\ UNCHANGED <<recs, files, overlap>>

\* except Exception: the document is marked failed; the run counts a failure
BatchFailedDoc(p) ==
    /\ pc[p] = "b_failed_doc"
    /\ LET doc == [loc[p].doc EXCEPT !.processing_status = "failed",
                                     !.processing_error = Some(StrExc(loc[p].exc))]
       IN  /\ docs' = [docs EXCEPT ![loc[p].pk] =
                           SaveFields(@, doc, {"processing_status", "processing_error"})]
           /\ Goto(p, "b_loop", [loc[p] EXCEPT !.doc = doc, !.failure_count = @ + 1])
    /\ UNCHANGED <<recs, files, overlap>>

\* the loop is over: return (success_count, failure_count)
BatchDone(p) ==
    /\ pc[p] = "b_loop"
    /\ loc[p].queue = <<>>
    /\ Goto(p, "b_return",
            [loc[p] EXCEPT !.ret = <<loc[p].success_count, loc[p].failure_count>>])
    /\ UNCHANGED <<docs, recs, files, overlap>>

\* main() logs the counts and exits
BatchReturn(p) ==
    /\ pc[p] = "b_return"
    /\ Finish(p)
    /\ UNCHANGED <<docs, recs, files, overlap>>

----------------------------------------------------------------------------
(* Specification *)

Next ==
    \/ \E p \in Procs :
          \/ \E file \in Uploads : UploadBegin(p, file)
          \/ UploadReset(p)
          \/ UploadCreate(p)
          \/ UploadSaveFile(p)
          \/ UploadRespond(p)
          \/ UploadReturn(p)
          \/ SyncMark(p)
          \/ \E api_key \in ApiKeys, model_order \in ModelOrders :
                SyncCredentials(p, api_key, model_order)
          \/ SyncGetOrCreate(p)
          \/ SyncReset(p)
          \/ SyncPrompt(p)
          \/ SyncRead(p)
          \/ CallModel(p)
          \/ CallResult(p)
          \/ SyncPersist(p)
          \/ SyncCompleted(p)
          \/ SyncTimeoutRec(p)
          \/ SyncTimeoutDoc(p)
          \/ SyncFailedRec(p)
          \/ SyncFailedDoc(p)
          \/ \E batch_size \in 1..MaxBatch, dry_run \in BOOLEAN,
                api_key \in ApiKeys, model_order \in ModelOrders :
                BatchBegin(p, batch_size, dry_run, api_key, model_order)
          \/ BatchSelect(p)
          \/ BatchNext(p)
          \/ BatchReset(p)
          \/ BatchFind(p)
          \/ BatchRead(p)
          \/ BatchPersist(p)
          \/ BatchCompleted(p)
          \/ BatchFailedRec(p)
          \/ BatchFailedDoc(p)
          \/ BatchDone(p)
          \/ BatchReturn(p)

\* handlers run one at a time
Spec == Init /\ [][Next]_vars

\* the state after construction when the web server and the cron job are
\* separate operating-system processes that run at the same time
InitOverlap ==
    /\ docs = <<>>
    /\ recs = EmptyDict
    /\ files = EmptyDict
    /\ pc = [p \in Procs |-> "idle"]
    /\ loc = [p \in Procs |-> NoLocals]
    /\ overlap = [enabled |-> TRUE, starts |-> MaxRacedStarts, lossy |-> FALSE,
                  recurring |-> FALSE]

\* an upload request and a cron run may interleave step by step
SpecOverlap == InitOverlap /\ [][Next]_vars

\* the state after construction when the upload directory may lose files
InitLoss ==
    /\ docs = <<>>
    /\ recs = EmptyDict
    /\ files = EmptyDict
    /\ pc = [p \in Procs |-> "idle"]
    /\ loc = [p \in Procs |-> NoLocals]
    /\ overlap = [enabled |-> FALSE, starts |-> 0, lossy |-> TRUE,
                  recurring |-> FALSE]

\* a stored image file is removed from the upload directory between two
\* handlers (the case image_path.exists() is tested for)
FileLost(path) ==
    /\ overlap.lossy
    /\ AllIdle
    /\ path \in DOMAIN files
    /\ files' = [f \in DOMAIN files \ {path} |-> files[f]]
    /\ UNCHANGED <<docs, recs, pc, loc, overlap>>

NextLoss ==
    \/ Next
    \/ \E path \in DOMAIN files : FileLost(path)

\* handlers run one at a time, over an upload directory that may lose files
SpecLoss == InitLoss /\ [][NextLoss]_vars

----------------------------------------------------------------------------
(* the cron job recurring, with credentials in place *)

\* the state after construction when the cron job recurs without end beside
\* a web server that takes MaxRacedStarts upload requests
InitLive ==
    /\ docs = <<>>
    /\ recs = EmptyDict
    /\ files = EmptyDict
    /\ pc = [p \in Procs |-> "idle"]
    /\ loc = [p \in Procs |-> NoLocals]
    /\ overlap = [enabled |-> TRUE, starts |-> MaxRacedStarts, lossy |-> FALSE,
                  recurring |-> TRUE]

\* OPENROUTER_MODEL_ORDER of a deployment whose credentials are in place
ConfiguredModelOrders == {<<"A">>}

\* the steps of an upload request once it has begun, with the API key and
\* a model order configured
UploadSteps(p) ==
    \/ UploadReset(p)
    \/ UploadCreate(p)
    \/ UploadSaveFile(p)
    \/ UploadRespond(p)
    \/ UploadReturn(p)
    \/ SyncMark(p)
    \/ \E model_order \in ConfiguredModelOrders : SyncCredentials(p, "test-key", model_order)
    \/ SyncGetOrCreate(p)
    \/ SyncReset(p)
    \/ SyncPrompt(p)
    \/ SyncRead(p)
    \/ SyncPersist(p)
    \/ SyncCompleted(p)
    \/ SyncTimeoutRec(p)
    \/ SyncTimeoutDoc(p)
    \/ SyncFailedRec(p)
    \/ SyncFailedDoc(p)

\* the steps of the cron job: a run that is not a dry run begins, with the
\* API key and a model order configured, or goes on
CronSteps(p) ==
    \/ \E batch_size \in 1..MaxBatch, model_order \in ConfiguredModelOrders :
          BatchBegin(p, batch_size, FALSE, "test-key", model_order)
    \/ BatchSelect(p)
    \/ BatchNext(p)
    \/ BatchReset(p)
    \/ BatchFind(p)
    \/ BatchRead(p)
    \/ BatchPersist(p)
    \/ BatchCompleted(p)
    \/ BatchFailedRec(p)
    \/ BatchFailedDoc(p)
    \/ BatchDone(p)
    \/ BatchReturn(p)

\* a vision call is posted, and it returns or times out
CallSteps(p) == CallModel(p) \/ CallResult(p)

NextLive ==
    \E p \in Procs :
        \/ \E file \in Uploads : UploadBegin(p, file)
        \/ UploadSteps(p)
        \/ CronSteps(p)
        \/ CallSteps(p)

\* a request that has begun goes on to its end, the cron job keeps running
\* and every vision call ends; uploads may stop arriving at any time
FairLive ==
    \A p \in WebProcs \cup CronProcs :
        WF_vars(UploadSteps(p) \/ CronSteps(p) \/ CallSteps(p))

\* the web server and the recurring cron job side by side
SpecLive == InitLive /\ [][NextLive]_vars /\ FairLive

----------------------------------------------------------------------------
(* two workers of the web server taking uploads at the same time *)

\* the state after construction when two workers take MaxRacedStarts upload
\* requests between them
InitTwin ==
    /\ docs = <<>>
    /\ recs = EmptyDict
    /\ files = EmptyDict
    /\ pc = [p \in Procs |-> "idle"]
    /\ loc = [p \in Procs |-> NoLocals]
    /\ overlap = [enabled |-> TRUE, starts |-> MaxRacedStarts, lossy |-> FALSE,
                  recurring |-> FALSE]

NextTwin ==
    \E p \in Procs :
        \/ \E file \in Uploads : UploadBegin(p, file)
        \/ \E file \in Uploads : SecondUploadBegin(p, file)
        \/ UploadSteps(p)
        \/ CallSteps(p)

\* two upload requests may interleave step by step
SpecTwin == InitTwin /\ [][NextTwin]_vars

----------------------------------------------------------------------------
(* views.status_fragment *)

\* mutant: only a completed image is terminal
is_terminal_completed_only(doc) == doc.processing_status = "completed"

\* is_terminal = doc.processing_status in ('completed', 'failed')
is_terminal(doc) == doc.processing_status \in {"completed", "failed"}

\* fragments/status_fragment.html rendered with the context: the fragment
\* shows the status and carries the htmx polling trigger unless the context
\* says the image is terminal
status_fragment_html(context) ==
    [status_code |-> 200,
     status |-> context.document.processing_status,
     hx_trigger |-> ~context.is_terminal]

\* get_object_or_404 found no ImageDocument
Http404 == [status_code |-> 404, status |-> "", hx_trigger |-> FALSE]

\* GET status_fragment_url for pk (0: a pk no image has); polls arrive at
\* any time, whatever the other workers are doing
StatusFragment(p, pk) ==
    /\ p \in PollProcs
    /\ pc[p] = "idle"
    /\ Goto(p, "f_return",
            [NoLocals EXCEPT
                !.pk = pk,
                !.ret = IF pk \in 1..Len(docs)
                        THEN status_fragment_html(
                                 [document |-> docs[pk],
                                  is_terminal |-> is_terminal(docs[pk])])
                        ELSE Http404])
    /\ UNCHANGED <<docs, recs, files, overlap>>

\* the fragment is sent
StatusReturn(p) ==
    /\ pc[p] = "f_return"
    /\ Finish(p)
    /\ UNCHANGED <<docs, recs, files, overlap>>

NextPoll ==
    \/ NextLoss
    \/ \E p \in Procs :
          \/ \E pk \in 0..Len(docs) : StatusFragment(p, pk)
          \/ StatusReturn(p)

\* the handlers one at a time, with status polls arriving at any time
SpecPoll == InitLoss /\ [][NextPoll]_vars

----------------------------------------------------------------------------
(* thumbnail_helpers *)

THUMBNAIL_MAX_HEIGHT_PX == 100
THUMBNAIL_MAX_WIDTH_PX == 200
THUMBNAIL_MAX_IMAGE_PIXELS == 80000000

\* the widths and heights of the image files tried
Sizes == {1, 2, 100, 101, 116, 145, 200, 201, 300, 9000, 20000}

\* the files generate_thumbnail_webp is given: images of every size (the
\* size is the one exif_transpose leaves), a file that is no image, a path
\* with no file, and an image whose data ends early
ImageFiles ==
    [kind : {"image"}, width : Sizes, height : Sizes]
        \cup {[kind |-> k, width |-> 1, height |-> 1] :
                 k \in {"corrupt", "missing", "truncated"}}

\* the sizes for which the double original_width * (100 / original_height)
\* is just below the integer the exact product equals
FloatFallsShort == {<<145, 116>>}

\* math.floor(original_width * scale) with scale = 100 / original_height
ScaledWidth(original_width, original_height) ==
    LET exact == (original_width * THUMBNAIL_MAX_HEIGHT_PX) \div original_height
    IN  IF <<original_width, original_height>> \in FloatFallsShort
        THEN exact - 1 ELSE exact

\* what Image.open raises for the file: the pixel limit is checked when the
\* header is read; "" when it raises nothing
OpenRaises(image) ==
    IF image.kind = "missing" THEN "FileNotFoundError"
    ELSE IF image.kind = "corrupt" THEN "UnidentifiedImageError"
    ELSE IF image.width * image.height > 2 * THUMBNAIL_MAX_IMAGE_PIXELS
         THEN "DecompressionBombError"
    ELSE IF image.width * image.height > THUMBNAIL_MAX_IMAGE_PIXELS
         THEN "DecompressionBombWarning"
    ELSE ""

\* what the body of the try block raises: Image.open's error, the OSError
\* of loading truncated data, or the ValueError of Image.resize for a size
\* with a side below 1
BodyRaises(image) ==
    IF OpenRaises(image) # "" THEN OpenRaises(image)
    ELSE IF image.kind = "truncated" THEN "OSError"
    ELSE IF /\ image.height > THUMBNAIL_MAX_HEIGHT_PX
            /\ ScaledWidth(image.width, image.height) < 1
         THEN "ValueError"
    ELSE ""

\* the exceptions the two except clauses catch
Caught ==
    {"DecompressionBombError", "DecompressionBombWarning",
     "UnidentifiedImageError", "OSError", "FileNotFoundError"}

\* the result of a call: the exception that leaves it, or the tuple returned
Raises(type) ==
    [raised |-> type, thumbnail_bytes |-> "", width_px |-> 0, height_px |-> 0]

Returns(width_px, height_px) ==
    [raised |-> "", thumbnail_bytes |-> "webp",
     width_px |-> width_px, height_px |-> height_px]

generate_thumbnail_webp(image) ==
    LET raised == BodyRaises(image)
        resized == image.height > THUMBNAIL_MAX_HEIGHT_PX
        new_width == IF resized THEN ScaledWidth(image.width, image.height)
                     ELSE image.width
        new_height == IF resized THEN THUMBNAIL_MAX_HEIGHT_PX ELSE image.height
    IN  IF raised # ""
        THEN IF raised \in Caught THEN Raises("ThumbnailError") ELSE Raises(raised)
        ELSE Returns(IF new_width > THUMBNAIL_MAX_WIDTH_PX
                     THEN THUMBNAIL_MAX_WIDTH_PX ELSE new_width,
                     new_height)

\* generate_thumbnail_webp is called on a file
Thumbnail(p, image) ==
    /\ p \in LibProcs
    /\ MayStart(p)
    /\ Goto(p, "t_return",
            [NoLocals EXCEPT !.file = image,
                             !.ret = generate_thumbnail_webp(image)])
    /\ Started
    /\ UNCHANGED <<docs, recs, files>>

----------------------------------------------------------------------------
(* direct calls of call_openrouter_with_model_order *)

\* call_openrouter_with_model_order(prompt, api_key, model_order, ...) is
\* called with a model order of the caller's choice
DirectCall(p, model_order) ==
    /\ p \in LibProcs
    /\ MayStart(p)
    /\ Goto(p, "call",
            [NoLocals EXCEPT !.path = "direct", !.api_key = "test-key",
                             !.model_order = model_order, !.index = 1])
    /\ Started
    /\ UNCHANGED <<docs, recs, files>>

----------------------------------------------------------------------------
(* direct calls of generate_checksum and of the path functions *)

\* length of the longest byte stream hashed
MaxBytes == 3

\* the byte streams hashed
ByteStrings == UNION {[1..n -> 1..NumContents] : n \in 0..MaxBytes}

RECURSIVE ChunksOfSize(_, _)
\* UploadedFile.chunks() of a file whose chunks hold chunk_size bytes
ChunksOfSize(bytes, chunk_size) ==
    IF Len(bytes) <= chunk_size THEN <<bytes>>
    ELSE <<SubSeq(bytes, 1, chunk_size)>>
         \o ChunksOfSize(SubSeq(bytes, chunk_size + 1, Len(bytes)), chunk_size)

\* generate_checksum is called on a file that yields its bytes in chunks of
\* chunk_size
Checksum(p, bytes, chunk_size) ==
    /\ p \in LibProcs
    /\ MayStart(p)
    /\ Goto(p, "c_return",
            [NoLocals EXCEPT
                !.file = [bytes |-> bytes, chunk_size |-> chunk_size],
                !.ret = HashChunks(7, ChunksOfSize(bytes, chunk_size))])
    /\ Started
    /\ UNCHANGED <<docs, recs, files>>

\* the extensions the path functions are given
Extensions ==
    {<<"P", "N", "G">>, <<".", "p", "n", "g">>, <<"p", "n", "g">>,
     <<".", "P", "n", "G">>, <<".", ".", "p", "n", "g">>, <<"g">>, <<>>}

\* save_image_file and get_image_path are called with the same checksum
\* and extension
Paths(p, checksum, extension) ==
    /\ p \in LibProcs
    /\ MayStart(p)
    /\ Goto(p, "x_return",
            [NoLocals EXCEPT
                !.checksum = checksum,
                !.file = [extension |-> extension],
                !.ret = [saved |-> save_image_path(checksum, extension),
                         looked_up |-> get_image_path(checksum, extension)]])
    /\ Started
    /\ UNCHANGED <<docs, recs, files>>

----------------------------------------------------------------------------
(* direct calls of parse_openrouter_response *)

\* the fields a response may lack
ResponseFields ==
    {"id", "provider", "model", "choices", "message", "content", "finish_reason",
     "usage", "prompt_tokens", "completion_tokens", "total_tokens", "created"}

\* the JSON object dict with the keys taken out: left out ("absent") or
\* given the value null ("null")
Without(dict, keys, how) ==
    LET gone == keys \cap DOMAIN dict
    IN  IF how = "null" /\ gone # {}
        THEN [k \in (DOMAIN dict \ gone) \cup {"nulls"} |->
                 IF k = "nulls" THEN gone ELSE dict[k]]
        ELSE [k \in DOMAIN dict \ gone |-> dict[k]]

\* a complete response with the fields in missing taken out
SparseOf(missing, how) ==
    LET full == FullResponse("A")
        message == Without(full.choices[1].message, missing, how)
        choice == Without([full.choices[1] EXCEPT !.message = message], missing, how)
        usage == Without(full.usage, missing, how)
    IN  Without([full EXCEPT !.choices = <<choice>>, !.usage = usage], missing, how)

\* the well-formed responses parse_openrouter_response is given
WellFormedResponses ==
    {SparseOf(missing, how) : missing \in SUBSET ResponseFields,
                              how \in {"absent", "null"}}

\* parse_openrouter_response is called on a response
Parse(p, response_json) ==
    /\ p \in LibProcs
    /\ MayStart(p)
    /\ Goto(p, "p_return",
            [NoLocals EXCEPT
                !.response_json = response_json,
                !.ret = [raised |-> parse_raises(response_json),
                         parsed |-> IF parse_raises(response_json) = ""
                                    THEN parse_openrouter_response(response_json)
                                    ELSE NULL]])
    /\ Started
    /\ UNCHANGED <<docs, recs, files>>

\* the direct caller has its result
LibReturn(p) ==
    /\ pc[p] \in {"t_return", "d_returned", "d_raised", "p_return", "c_return",
                "x_return"}
    /\ Finish(p)
    /\ UNCHANGED <<docs, recs, files, overlap>>

NextLib ==
    \E p \in Procs :
        \/ \E image \in ImageFiles : Thumbnail(p, image)
        \/ \E model_order \in ModelOrders : DirectCall(p, model_order)
        \/ \E response_json \in WellFormedResponses : Parse(p, response_json)
        \/ \E bytes \in ByteStrings, chunk_size \in 1..MaxBytes :
              Checksum(p, bytes, chunk_size)
        \/ \E bytes \in ByteStrings, extension \in Extensions :
              Paths(p, HashChunks(7, <<bytes>>), extension)
        \/ CallModel(p)
        \/ CallResult(p)
        \/ LibReturn(p)

\* the library functions called directly, one call at a time
SpecLib == Init /\ [][NextLib]_vars

----------------------------------------------------------------------------
(* Claims C1-C3: the outcome of attempt_openrouter_sync *)

\* attempt_openrouter_sync has just returned to upload_image in process p
SyncReturned(p) == pc[p] = "u_respond"

\* the attempt of process p ended with an exception of call_openrouter_with_model_order
Raised(p) == loc[p].exc # NULL

\* C1: when the vision call of a sync attempt times out, then on return the
\* attempt is 'pending' with an error text containing 'timed out', the image
\* is 'pending' with processing_started_at cleared, the function has returned
\* False, and neither record is 'failed'.
C1_TimeoutLeavesPending ==
    \A p \in WebProcs :
        (SyncReturned(p) /\ Raised(p) /\ loc[p].exc.type = "TimeoutException") =>
            /\ loc[p].pk \in DOMAIN recs
            /\ recs[loc[p].pk].status = "pending"
            /\ recs[loc[p].pk].error # NULL
            /\ Contains(recs[loc[p].pk].error.val, <<"timed", "out">>)
            /\ docs[loc[p].pk].processing_status = "pending"
            /\ docs[loc[p].pk].processing_started_at = NULL
            /\ loc[p].ret = FALSE

\* a sync attempt has timed out and returned, leaving (pending, pending)
C1_Witness ==
    \E p \in WebProcs :
        /\ SyncReturned(p) /\ Raised(p) /\ loc[p].exc.type = "TimeoutException"
        /\ Len(loc[p].called) >= 1
        /\ recs[loc[p].pk].status = "pending"
        /\ docs[loc[p].pk].processing_status = "pending"

C3_ErrorMarksFailed ==
    \A p \in WebProcs :
        (SyncReturned(p) /\ Raised(p) /\ loc[p].exc.type # "TimeoutException") =>
            /\ loc[p].pk \in DOMAIN recs
            /\ recs[loc[p].pk].status = "failed"
            /\ recs[loc[p].pk].error = Some(loc[p].exc.msg)
            /\ docs[loc[p].pk].processing_status = "failed"
            /\ docs[loc[p].pk].processing_error = Some(loc[p].exc.msg)
            /\ loc[p].ret = FALSE

\* a sync attempt has failed with an upstream error and returned
C3_Witness ==
    \E p \in WebProcs :
        /\ SyncReturned(p) /\ Raised(p) /\ loc[p].exc.type = "HTTPStatusError"
        /\ recs[loc[p].pk].status = "failed"
        /\ docs[loc[p].pk].processing_error = Some(HttpStatusText)

----------------------------------------------------------------------------
(* Claim C4: the batch run after a sync timeout *)

\* the selection rule: the image is pending or processing and has no attempt
\* or an attempt that is pending or failed
Eligible(d) ==
    /\ docs[d].processing_status \in {"pending", "processing"}
    /\ d \in DOMAIN recs => recs[d].status \in {"pending", "failed"}

\* document d is as a timed-out sync attempt leaves it
LeftByTimeout(d) ==
    /\ docs[d].processing_status = "pending"
    /\ docs[d].processing_started_at = NULL
    /\ d \in DOMAIN recs
    /\ recs[d].status = "pending"
    /\ recs[d].error = Some(SyncTimeoutText)

\* process p has just finished a document whose vision call succeeded
BatchSucceeded(p) ==
    pc[p] = "b_loop" /\ loc[p].pk # 0 /\ loc[p].response_json # NULL

----------------------------------------------------------------------------
(* Claims C5-C7: re-upload of bytes already known *)

\* the step is process p receiving an upload whose document has this status
BeginsOn(p, statuses) ==
    /\ pc[p] = "idle" /\ pc'[p] # "idle"
    /\ \E d \in 1..Len(docs) :
           /\ docs[d].file_checksum = loc'[p].checksum
           /\ docs[d].processing_status \in statuses

\* the step is process p leaving the given label
Leaves(p, label) == pc[p] = label /\ pc'[p] # label

\* the step changes no image record, no attempt record and no stored file
NoRecordChanged == docs' = docs /\ recs' = recs /\ files' = files

\* C5: an upload of bytes whose image record is 'completed' starts no
\* attempt and issues no vision call: the handler redirects at once, and the
\* image record, the attempt record and the number of records are unchanged;
\* a completed record and its attempt are changed by no later step, so this
\* holds however often the upload is repeated.
C5_CompletedReuploadIsNoop ==
    [][/\ \A p \in WebProcs :
            /\ BeginsOn(p, {"completed"}) =>
                   /\ pc'[p] = "u_return"
                   /\ loc'[p].message = "already processed"
                   /\ loc'[p].called = <<>>
                   /\ NoRecordChanged
            /\ (Leaves(p, "u_return") /\ loc[p].message = "already processed") =>
                   /\ pc'[p] = "idle"
                   /\ loc[p].called = <<>>
                   /\ NoRecordChanged
       /\ \A d \in 1..Len(docs) :
            docs[d].processing_status = "completed" =>
                /\ Len(docs') >= Len(docs)
                /\ docs'[d] = docs[d]
                /\ d \in DOMAIN recs => (d \in DOMAIN recs' /\ recs'[d] = recs[d])
      ]_vars

\* an upload of completed bytes has been answered without any call
C5_Witness ==
    \E p \in WebProcs :
        /\ pc[p] = "u_return"
        /\ loc[p].message = "already processed"
        /\ loc[p].called = <<>>
        /\ docs[loc[p].pk].processing_status = "completed"
        /\ recs[loc[p].pk].status = "completed"

\* C6: an upload of bytes whose image record is 'failed' resets that record
\* to 'pending' with processing_error cleared, creates no image record and
\* leaves the attempt records as they are; the attempt records stay as they
\* are through every later step of the handler up to the reset of
\* attempt_openrouter_sync, which overwrites status and error.
C6_FailedReuploadResets ==
    [][\A p \in WebProcs :
          /\ BeginsOn(p, {"failed"}) =>
                 /\ pc'[p] = "u_reset"
                 /\ docs[loc'[p].pk].file_checksum = loc'[p].checksum
                 /\ NoRecordChanged
          /\ Leaves(p, "u_reset") =>
                 /\ pc'[p] = "u_save"
                 /\ Len(docs') = Len(docs)
                 /\ docs'[loc[p].pk] =
                        [docs[loc[p].pk] EXCEPT !.processing_status = "pending",
                                                !.processing_error = NULL]
                 /\ \A d \in 1..Len(docs) : d # loc[p].pk => docs'[d] = docs[d]
                 /\ recs' = recs
          /\ (pc[p] \in {"u_save", "s_mark", "s_creds", "s_get_or_create"}
                /\ pc'[p] # pc[p] /\ loc[p].pk \in DOMAIN recs) =>
                 recs' = recs
          /\ Leaves(p, "s_reset") =>
                 /\ recs'[loc[p].pk].status = "processing"
                 /\ recs'[loc[p].pk].error = NULL
      ]_vars

\* a failed image has been reset to pending and its attempt is still failed
C6_Witness ==
    \E p \in WebProcs :
        /\ pc[p] = "u_save"
        /\ docs[loc[p].pk].processing_status = "pending"
        /\ docs[loc[p].pk].processing_error = NULL
        /\ loc[p].pk \in DOMAIN recs
        /\ recs[loc[p].pk].status = "failed"
        /\ recs[loc[p].pk].error # NULL

\* C7: an upload of bytes whose image record is 'pending' or 'processing'
\* starts no attempt and issues no vision call: the handler redirects at
\* once and changes no image record and no attempt record.
C7_InFlightReuploadIsNoop ==
    [][\A p \in WebProcs :
          /\ BeginsOn(p, {"pending", "processing"}) =>
                 /\ pc'[p] = "u_return"
                 /\ loc'[p].message = "already being processed"
                 /\ loc'[p].called = <<>>
                 /\ NoRecordChanged
          /\ (Leaves(p, "u_return") /\ loc[p].message = "already being processed") =>
                 /\ pc'[p] = "idle"
                 /\ loc[p].called = <<>>
                 /\ NoRecordChanged
      ]_vars

\* an upload of bytes whose image is pending has been answered without any call
C7_Witness ==
    \E p \in WebProcs :
        /\ pc[p] = "u_return"
        /\ loc[p].message = "already being processed"
        /\ loc[p].called = <<>>
        /\ docs[loc[p].pk].processing_status = "pending"
        /\ recs[loc[p].pk].status = "pending"

\* an upload of bytes whose image is processing has been answered without any call
C7_WitnessProcessing ==
    \E p \in WebProcs :
        /\ pc[p] = "u_return"
        /\ loc[p].message = "already being processed"
        /\ docs[loc[p].pk].processing_status = "processing"

----------------------------------------------------------------------------
(* Claims C8-C9: missing credentials *)

\* process p read settings without an API key or without a model order
CredentialsMissing(p) == loc[p].api_key = "" \/ loc[p].model_order = <<>>

\* C8 (as claimed): when an upload is accepted while the API key or the model
\* order is empty, the image record is 'pending' when the upload path returns.
C8_NoCredentialsStaysPending ==
    \A p \in WebProcs :
        (SyncReturned(p) /\ CredentialsMissing(p)) =>
            docs[loc[p].pk].processing_status = "pending"

\* C9: attempt_openrouter_sync run without an API key or without a model
\* order returns False at the credentials check: it creates no attempt
\* record, modifies no attempt record and issues no vision call.
C9_NoCredentialsSkipsAttempt ==
    [][\A p \in WebProcs :
          (Leaves(p, "s_creds") /\ (loc'[p].api_key = "" \/ loc'[p].model_order = <<>>)) =>
              /\ pc'[p] = "u_respond"
              /\ loc'[p].ret = FALSE
              /\ loc'[p].called = <<>>
              /\ NoRecordChanged
      ]_vars

\* the attempt was skipped on an image that already has an attempt record,
\* which is still as the failed attempt left it
C9_Witness ==
    \E p \in WebProcs :
        /\ SyncReturned(p) /\ CredentialsMissing(p)
        /\ loc[p].ret = FALSE
        /\ loc[p].called = <<>>
        /\ loc[p].pk \in DOMAIN recs
        /\ recs[loc[p].pk].status = "failed"

----------------------------------------------------------------------------
(* Claim C10: one image record per content checksum *)

\* C10: no two image records share a checksum; an upload never fails on the
\* unique checksum; past the lookup and create, the handler's record is the
\* one keyed by the checksum of the uploaded bytes; that record is 'pending'
\* before any attempt; and once the file is saved, {checksum}.png holds the
\* uploaded bytes.
C10_OneRecordPerChecksum ==
    /\ \A d, e \in 1..Len(docs) :
           d # e => docs[d].file_checksum # docs[e].file_checksum
    /\ \A p \in WebProcs :
           /\ pc[p] # "idle" => loc[p].message # "IntegrityError"
           /\ pc[p] \notin {"idle", "u_create"} =>
                  /\ loc[p].pk \in 1..Len(docs)
                  /\ docs[loc[p].pk].file_checksum = generate_checksum(loc[p].file)
           /\ pc[p] = "u_save" =>
                  docs[loc[p].pk].processing_status = "pending"
           /\ pc[p] = "s_mark" =>
                  LET stored == <<docs[loc[p].pk].file_checksum, ".", <<"p", "n", "g">>>>
                  IN  stored \in DOMAIN files /\ files[stored] = loc[p].file.bytes

\* a second upload of stored bytes has resolved to the one existing record
C10_Witness ==
    \E p \in WebProcs :
        /\ pc[p] = "u_reset"
        /\ Len(docs) = 1
        /\ DOMAIN files # {}
        /\ docs[loc[p].pk].file_checksum = generate_checksum(loc[p].file)

----------------------------------------------------------------------------
(* Claims C11-C13: what a batch run selects, and what a timeout leaves *)

\* the pks of the eligible documents
EligibleDocs == {d \in 1..Len(docs) : Eligible(d)}

\* the elements of a sequence
Range(seq) == {seq[i] : i \in 1..Len(seq)}

\* process p has evaluated find_pending_alt_text and processed nothing yet
JustSelected(p) ==
    pc[p] = "b_loop" /\ Len(loc[p].queue) = Len(loc[p].selected)

\* C11: for every batch size, find_pending_alt_text returns at most batch_size
\* documents, none of them twice, each with image status pending or
\* processing and with no attempt or an attempt that is pending or failed
\* (so none whose image is completed or failed or whose attempt is completed
\* or processing); when at most batch_size documents are eligible it returns
\* all of them; and a batch run works on exactly such a list.
C11_SelectionIsEligible ==
    /\ \A batch_size \in 1..MaxBatch :
           LET result == find_pending_alt_text(batch_size)
           IN  /\ Len(result) <= batch_size
               /\ \A i, j \in 1..Len(result) : i # j => result[i] # result[j]
               /\ Range(result) \subseteq EligibleDocs
               /\ \A i \in 1..Len(result) :
                      /\ docs[result[i]].processing_status \notin {"completed", "failed"}
                      /\ result[i] \in DOMAIN recs =>
                             recs[result[i]].status \notin {"completed", "processing"}
               /\ Cardinality(EligibleDocs) <= batch_size =>
                      Range(result) = EligibleDocs
    /\ \A p \in CronProcs :
           JustSelected(p) =>
               /\ Range(loc[p].selected) \subseteq EligibleDocs
               /\ \E batch_size \in 1..MaxBatch :
                      loc[p].selected = find_pending_alt_text(batch_size)

\* a batch run has selected the one eligible document and left out a
\* completed one
C11_Witness ==
    \E p \in CronProcs :
        /\ JustSelected(p)
        /\ Len(loc[p].selected) = 1
        /\ \E d \in 1..Len(docs) :
               /\ docs[d].processing_status = "completed"
               /\ recs[d].status = "completed"
               /\ d \notin Range(loc[p].selected)

\* process p has just finished a document whose vision call timed out
BatchTimedOut(p) ==
    /\ pc[p] = "b_loop" /\ loc[p].pk # 0
    /\ loc[p].exc # NULL /\ loc[p].exc.type = "TimeoutException"

\* C12 (as claimed): when the vision call times out while a batch run
\* processes a document, the document is left with image status 'pending'
\* and attempt status 'pending', and is eligible for the next batch run.
C12_BatchTimeoutLeavesPending ==
    \A p \in CronProcs :
        BatchTimedOut(p) =>
            /\ docs[loc[p].pk].processing_status = "pending"
            /\ recs[loc[p].pk].status = "pending"
            /\ Eligible(loc[p].pk)

\* C13 (as claimed): the documents a batch run selects are in ascending
\* upload order, and no eligible document left out is older than a selected
\* one.
C13_OldestFirst ==
    \A p \in CronProcs :
        JustSelected(p) =>
            LET selected == loc[p].selected
            IN  /\ \A i, j \in 1..Len(selected) : i < j => selected[i] < selected[j]
                /\ \A d \in EligibleDocs \ Range(selected) :
                       \A i \in 1..Len(selected) : selected[i] < d

----------------------------------------------------------------------------
(* Claims C14-C15: a sync attempt and a batch run on the same image *)

\* positions between the get_or_create of an attempt and its last save
AttemptLabels ==
    {"s_reset", "s_prompt", "s_read", "s_persist", "s_completed",
     "s_timeout_rec", "s_timeout_doc", "s_failed_rec", "s_failed_doc",
     "b_reset", "b_find", "b_read", "b_persist", "b_completed",
     "b_failed_rec", "b_failed_doc", "call", "await"}

\* process q is in the middle of an attempt on document d
InFlight(q, d) == pc[q] \in AttemptLabels /\ loc[q].pk = d

\* the step is process p posting a vision request
StartsCall(p) == pc[p] = "call" /\ pc'[p] = "await"

\* C14 (as claimed): a batch run never posts a vision request for a document
\* on which another process's attempt is in flight at that moment, nor for
\* one whose attempt record is 'completed' at that moment.
C14_NoCallWhileInFlight ==
    [][\A p \in CronProcs :
          StartsCall(p) =>
              /\ \A q \in Procs \ {p} : ~InFlight(q, loc[p].pk)
              /\ recs[loc[p].pk].status # "completed"]_vars

\* C14 (amended): a batch run never selects a document whose attempt record
\* is 'completed' or 'processing' at the moment the query that returns it is
\* evaluated: the first query returns active documents that have no attempt
\* record at that moment, the second query adds active documents whose
\* attempt record is 'pending' or 'failed' at that moment.
C14_NotSelectedWhileProcessing ==
    [][\A p \in CronProcs :
          /\ (pc[p] = "idle" /\ pc'[p] = "b_select") =>
                 \A i \in 1..Len(loc'[p].queue) :
                     LET d == loc'[p].queue[i].pk
                     IN  /\ d \notin DOMAIN recs
                         /\ docs[d].processing_status \in {"pending", "processing"}
          /\ (pc[p] = "b_select" /\ pc'[p] # "b_select") =>
                 \A d \in Range(loc'[p].selected) :
                     \/ \E i \in 1..Len(loc[p].queue) : loc[p].queue[i].pk = d
                     \/ /\ d \in DOMAIN recs
                        /\ recs[d].status \in {"pending", "failed"}
                        /\ recs[d].status \notin {"completed", "processing"}
                        /\ docs[d].processing_status \in {"pending", "processing"}]_vars

\* a batch run has selected a document that an upload request has marked
\* 'processing' and is about to attempt
C14_Witness ==
    \E p \in CronProcs, q \in WebProcs :
        /\ JustSelected(p)
        /\ loc[p].selected = <<loc[q].pk>>
        /\ pc[q] \in {"s_creds", "s_get_or_create"}
        /\ docs[loc[q].pk].processing_status = "processing"

\* a sync attempt of process q and a batch attempt of process p on the same
\* document have both finished
BothFinished(q, p) ==
    /\ pc[q] = "u_respond" /\ loc[q].rec # NULL
    /\ pc[p] \in {"b_loop", "b_return"} /\ loc[p].rec # NULL
    /\ loc[p].pk = loc[q].pk

\* C15 (as claimed): once a sync attempt and a batch attempt on the same image
\* have both finished, however their steps interleaved, the image's
\* processing_status equals its attempt's status, and the pair is (completed,
\* completed), (failed, failed) or (pending, pending).
C15_RaceLeavesMatchingPair ==
    \A q \in WebProcs, p \in CronProcs :
        BothFinished(q, p) =>
            /\ docs[loc[q].pk].processing_status = recs[loc[q].pk].status
            /\ recs[loc[q].pk].status \in {"completed", "failed", "pending"}

----------------------------------------------------------------------------
(* Claims C16-C18: the batch run *)

\* C16: a dry run only selects: from its start to its return it changes no
\* image row, no attempt row and no file, creates no attempt row, posts no
\* vision request, processes no document, and returns (0, 0).
C16_DryRunChangesNothing ==
    [][\A p \in CronProcs :
          (pc'[p] # "idle" /\ loc'[p].dry_run) =>
              /\ docs' = docs
              /\ recs' = recs
              /\ files' = files
              /\ loc'[p].called = <<>>
              /\ loc'[p].queue = <<>> \/ pc'[p] = "b_select"
              /\ pc'[p] \in {"b_select", "b_return"}
              /\ pc'[p] = "b_return" => loc'[p].ret = <<0, 0>>]_vars

\* a dry run has selected a document and is returning (0, 0), the document
\* still eligible and without an attempt row
C16_Witness ==
    \E p \in CronProcs :
        /\ pc[p] = "b_return" /\ loc[p].dry_run
        /\ loc[p].ret = <<0, 0>>
        /\ Len(loc[p].selected) = 1
        /\ loc[p].selected[1] \notin DOMAIN recs
        /\ Eligible(loc[p].selected[1])

\* the path of document d's stored file
StoredPath(d) == get_image_path(docs[d].file_checksum, docs[d].file_extension)

\* process p has just finished a document whose stored file does not exist
BatchMissedFile(p) ==
    /\ pc[p] = "b_loop" /\ loc[p].pk # 0
    /\ StoredPath(loc[p].pk) \notin DOMAIN files

\* C17: when a batch run has processed a selected document whose stored file
\* does not exist, no vision request was posted for it, and the image and the
\* attempt are both 'failed' with the error 'Image file not found: <path>';
\* the document is not 'pending'.
C17_MissingFileFails ==
    \A p \in CronProcs :
        BatchMissedFile(p) =>
            LET d == loc[p].pk
                text == <<"Image", "file", "not", "found", ":">> \o StoredPath(d)
            IN  /\ loc[p].called = <<>>
                /\ loc[p].response_json = NULL
                /\ docs[d].processing_status = "failed"
                /\ docs[d].processing_error = Some(text)
                /\ recs[d].status = "failed"
                /\ recs[d].error = Some(text)
                /\ Contains(recs[d].error.val, <<"Image", "file", "not", "found">>)
                /\ ~Eligible(d)

\* a batch run has failed a document whose file had vanished and counted it
C17_Witness ==
    \E p \in CronProcs :
        /\ BatchMissedFile(p)
        /\ loc[p].failure_count = 1
        /\ docs[loc[p].pk].processing_status = "failed"
        /\ recs[loc[p].pk].status = "failed"

\* the selected documents left (completed, completed)
Completed(selected) ==
    {i \in 1..Len(selected) :
        /\ docs[selected[i]].processing_status = "completed"
        /\ selected[i] \in DOMAIN recs
        /\ recs[selected[i]].status = "completed"}

\* process p's run was not a dry run and has ended
BatchEnded(p) ==
    /\ pc[p] = "b_return" /\ ~loc[p].dry_run
    /\ loc[p].api_key # "" /\ loc[p].model_order # <<>>

\* C18: a non-dry batch run processes every selected document once, whatever
\* fails on the way: it returns a pair of counts (it does not raise), their
\* sum is the number of documents selected, the first is the number of
\* selected documents left (completed, completed), and during the run the
\* documents counted and the documents still queued are the selection.
C18_FailuresAreIsolated ==
    \A p \in CronProcs :
        /\ BatchEnded(p) =>
               /\ loc[p].ret = <<loc[p].success_count, loc[p].failure_count>>
               /\ loc[p].success_count + loc[p].failure_count = Len(loc[p].selected)
               /\ loc[p].success_count = Cardinality(Completed(loc[p].selected))
        /\ pc[p] = "b_loop" =>
               /\ loc[p].success_count + loc[p].failure_count + Len(loc[p].queue)
                      = Len(loc[p].selected)
               /\ \A i \in 1..Len(loc[p].queue) :
                      loc[p].queue[i].pk
                          = loc[p].selected[Len(loc[p].selected) - Len(loc[p].queue) + i]

\* a run of two documents has ended with one failure followed by one success
C18_Witness ==
    \E p \in CronProcs :
        /\ BatchEnded(p)
        /\ loc[p].ret = <<1, 1>>
        /\ Len(loc[p].selected) = 2
        /\ docs[loc[p].selected[1]].processing_status = "failed"
        /\ docs[loc[p].selected[2]].processing_status = "completed"

----------------------------------------------------------------------------
(* Claims C19-C20: call_openrouter_with_model_order *)

\* C19: in every invocation the k-th request posted is for the k-th model of
\* the order; a request is posted only when every earlier one has failed, so
\* none is posted after a success and at most one is unanswered at a time;
\* at most len(model_order) requests are posted.
C19_CallsInOrderOneAtATime ==
    \A p \in Procs :
        LET called == loc[p].called
            order == loc[p].model_order
        IN  /\ Len(called) <= Len(order)
            /\ \A i \in 1..Len(called) : called[i].model = order[i]
            /\ \A i \in 1..(Len(called) - 1) : called[i].outcome = "failed"
            /\ Cardinality({i \in 1..Len(called) : called[i].outcome = "inflight"}) <= 1
            /\ pc[p] = "await" <=>
                   (called # <<>> /\ called[Len(called)].outcome = "inflight")

\* with order [A, B], A has been called and has failed, then B has been called
\* and has answered, and nothing was called after it
C19_Witness ==
    \E p \in Procs :
        /\ loc[p].model_order = <<"A", "B">>
        /\ loc[p].called = <<[model |-> "A", outcome |-> "failed"],
                             [model |-> "B", outcome |-> "ok"]>>
        /\ pc[p] \in {"s_completed", "b_completed"}

\* positions of the except clauses of the callers
RaisedLabels ==
    {"s_timeout_rec", "s_timeout_doc", "s_failed_rec", "s_failed_doc",
     "b_failed_rec", "b_failed_doc"}

\* C20: when a model of the order answers, call_openrouter_with_model_order
\* returns that model's response, which is the response of the first model
\* that succeeded, and raises nothing, whether the earlier models timed out
\* or failed upstream; the caller is in an except clause only if no model
\* answered.
C20_FirstSuccessIsReturned ==
    \A p \in Procs :
        LET called == loc[p].called
            n == Len(called)
        IN  /\ (n > 0 /\ called[n].outcome = "ok") =>
                   /\ pc[p] \notin RaisedLabels
                   /\ loc[p].exc = NULL
                   /\ \A i \in 1..(n - 1) : called[i].outcome = "failed"
                   /\ loc[p].response_json \in Responses(called[n].model)
                   /\ "model" \in DOMAIN loc[p].response_json =>
                          loc[p].response_json.model = loc[p].model_order[n]
            /\ (pc[p] \in RaisedLabels /\ n > 0) =>
                   \A i \in 1..n : called[i].outcome = "failed"

\* with order [A, B], A has failed, B has answered, and the sync attempt
\* is about to persist B's response
C20_Witness ==
    \E p \in WebProcs :
        /\ pc[p] = "s_persist"
        /\ loc[p].model_order = <<"A", "B">>
        /\ loc[p].called[1].outcome = "failed"
        /\ loc[p].response_json = FullResponse("B")
        /\ loc[p].exc = NULL

----------------------------------------------------------------------------
(* Claims C21-C22: call_openrouter_with_model_order when no model answers *)

\* C21: when every model of a non-empty order has failed, the exception the
\* caller catches is the one the last model's call raised, of the class that
\* call raised it with: every model was tried, the exception held between two
\* calls is that of the latest call, and the sync path, which tells the
\* classes apart, handles it as a timeout exactly when it is a timeout (so a
\* single model that times out gives a timeout, not an upstream error).
C21_LastErrorIsRaised ==
    \A p \in Procs :
        LET called == loc[p].called
            order == loc[p].model_order
        IN  /\ (pc[p] \in RaisedLabels /\ called # <<>>) =>
                   /\ Len(called) = Len(order)
                   /\ \A i \in 1..Len(called) : called[i].outcome = "failed"
                   /\ loc[p].exc \in CallErrors(order[Len(order)])
                   /\ loc[p].path = "sync" =>
                          (loc[p].exc.type = "TimeoutException"
                              <=> pc[p] \in {"s_timeout_rec", "s_timeout_doc"})
            /\ (pc[p] = "call" /\ loc[p].index > 1) =>
                   loc[p].exc \in CallErrors(order[loc[p].index - 1])

\* with order [A, B] both models have failed and the sync path handles the
\* timeout of B
C21_Witness ==
    \E p \in WebProcs :
        /\ pc[p] = "s_timeout_rec"
        /\ loc[p].model_order = <<"A", "B">>
        /\ Len(loc[p].called) = 2
        /\ loc[p].exc = TimeoutException("B")

\* a direct call has ended
DirectEnded(p) == pc[p] \in {"d_returned", "d_raised"}

\* C22: call_openrouter_with_model_order called with an empty model list
\* ends with an error and returns no response object.
C22_EmptyOrderRaises ==
    \A p \in LibProcs :
        (DirectEnded(p) /\ loc[p].model_order = <<>>) =>
            /\ pc[p] = "d_raised"
            /\ loc[p].response_json = NULL

----------------------------------------------------------------------------
(* Claims C23-C26: the columns of an alt-text row by status *)

\* C23: in every reachable state, whatever the interleaving of the upload
\* request and the cron run, an alt-text row whose status is 'completed' has
\* error null and completed_at non-null.
C23_CompletedHasNoError ==
    \A d \in DOMAIN recs :
        recs[d].status = "completed" =>
            /\ recs[d].error = NULL
            /\ recs[d].completed_at # NULL

\* the cron run has completed the row while the upload request that works
\* on the same image is about to handle its timeout
C23_Witness ==
    \E p \in WebProcs :
        /\ pc[p] = "s_timeout_rec"
        /\ loc[p].pk \in DOMAIN recs
        /\ recs[loc[p].pk].status = "completed"

\* C24: an alt-text row whose status is 'completed' has a non-empty alt_text
\* and non-null prompt, completion and total token counts, whatever success
\* response the vision API gave.
C24_CompletedHasTextAndTokens ==
    \A d \in DOMAIN recs :
        recs[d].status = "completed" =>
            /\ recs[d].alt_text # <<>>
            /\ recs[d].prompt_tokens # NULL
            /\ recs[d].completion_tokens # NULL
            /\ recs[d].total_tokens # NULL

\* C25: in every reachable state, whatever the interleaving, an alt-text row
\* whose status is 'failed' has a non-null error, and an image whose
\* processing_status is 'failed' has a non-null processing_error.
C25_FailedHasError ==
    /\ \A d \in DOMAIN recs :
           recs[d].status = "failed" => recs[d].error # NULL
    /\ \A d \in 1..Len(docs) :
           docs[d].processing_status = "failed" => docs[d].processing_error # NULL

\* the cron run has marked the row failed and the image is failed as well
C25_Witness ==
    \E p \in CronProcs :
        /\ pc[p] = "b_loop"
        /\ loc[p].failure_count > 0
        /\ \E d \in DOMAIN recs :
               /\ recs[d].status = "failed"
               /\ docs[d].processing_status = "failed"

\* process p takes the step that persists a response for image d
PersistStep(p, d) ==
    /\ \/ pc[p] = "s_persist" /\ pc'[p] = "s_completed"
       \/ pc[p] = "b_persist" /\ pc'[p] = "b_completed"
    /\ loc[p].pk = d
    /\ loc[p].response_json # NULL

\* C26: a step that writes an alt-text row with status 'completed' is the
\* persist step of a process that holds a response for that image, and it
\* writes alt_text, the response metadata, the token counts, completed_at
\* and error = null together with the status.
C26_CompletedOnlyByPersist ==
    [][\A d \in DOMAIN recs' :
          (/\ recs'[d].status = "completed"
           /\ d \in DOMAIN recs => recs[d] # recs'[d]) =>
              \E p \in Procs :
                  LET parsed == parse_openrouter_response(loc[p].response_json)
                  IN  /\ PersistStep(p, d)
                      /\ recs'[d].raw_response_json = Some(loc[p].response_json)
                      /\ recs'[d].alt_text = parsed.alt_text
                      /\ recs'[d].openrouter_response_id = parsed.openrouter_response_id
                      /\ recs'[d].prompt_tokens = parsed.prompt_tokens
                      /\ recs'[d].completion_tokens = parsed.completion_tokens
                      /\ recs'[d].total_tokens = parsed.total_tokens
                      /\ recs'[d].completed_at # NULL
                      /\ recs'[d].error = NULL]_vars

\* the cron run has just persisted a response: the row is completed, the
\* image not yet
C26_Witness ==
    \E p \in CronProcs :
        /\ pc[p] = "b_completed"
        /\ recs[loc[p].pk].status = "completed"
        /\ recs[loc[p].pk].completed_at # NULL
        /\ docs[loc[p].pk].processing_status # "completed"

----------------------------------------------------------------------------
(* Claim C27: the time budget of the sync attempt *)

\* C27: once a call of the sync attempt has exceeded the timeout budget, no
\* further vision call is made: the upload request never waits for a model
\* while holding the timeout of an earlier one.
C27_NoCallAfterTimeout ==
    \A p \in WebProcs :
        pc[p] = "await" =>
            \/ loc[p].exc = NULL
            \/ loc[p].exc.type # "TimeoutException"

----------------------------------------------------------------------------
(* Claim C28: one alt-text row per image, reused *)

\* the image whose row process p is about to get or create; 0 if none
Target(p) ==
    IF pc[p] = "s_get_or_create" THEN loc[p].pk
    ELSE IF pc[p] = "b_loop" /\ loc[p].queue # <<>> THEN Head(loc[p].queue).pk
    ELSE 0

\* C28: recs holds at most one alt-text row per image (it is keyed by the
\* image, as the one-to-one column is); no step removes an image or an
\* alt-text row; get_or_create for an image that has a row writes nothing
\* and hands that row to the reset; the reset keeps the row and sets its
\* status to 'processing', its requested_at to the current time and its
\* error to null.
C28_AttemptReused ==
    [][/\ DOMAIN recs \subseteq DOMAIN recs'
       /\ Len(docs') >= Len(docs)
       /\ \A p \in Procs :
             /\ (Target(p) \in DOMAIN recs /\ pc'[p] # pc[p]) =>
                    /\ recs' = recs
                    /\ pc'[p] \in {"s_reset", "b_reset"}
                    /\ loc'[p].pk = Target(p)
                    /\ loc'[p].rec = recs[Target(p)]
             /\ (pc[p] \in {"s_reset", "b_reset"} /\ pc'[p] # pc[p]) =>
                    recs' = [recs EXCEPT ![loc[p].pk] =
                                [@ EXCEPT !.status = "processing",
                                          !.requested_at = Now,
                                          !.error = NULL]]]_vars

\* the upload request has reset the row an earlier attempt left with an
\* error: it carries the earlier attempt's prompt
C28_Witness ==
    \E p \in WebProcs :
        /\ pc[p] = "s_prompt"
        /\ loc[p].rec.prompt = build_prompt
        /\ recs[loc[p].pk].status = "processing"
        /\ recs[loc[p].pk].error = NULL

----------------------------------------------------------------------------
(* Claim C29: the status fragment *)

\* C29: the status fragment of an image stops polling exactly when the
\* processing_status it read is 'completed' or 'failed', and keeps polling
\* when it is 'pending' or 'processing'.
C29_PollsUntilTerminal ==
    \A p \in PollProcs :
        (pc[p] = "f_return" /\ loc[p].ret.status_code = 200) =>
            /\ loc[p].ret.status \in {"completed", "failed"} => ~loc[p].ret.hx_trigger
            /\ loc[p].ret.status \in {"pending", "processing"} => loc[p].ret.hx_trigger

\* the fragment of an image whose upload request is in its sync attempt
\* keeps polling
C29_Witness ==
    \E p \in PollProcs :
        /\ pc[p] = "f_return"
        /\ loc[p].ret.status = "processing"
        /\ loc[p].ret.hx_trigger

\* the fragment of a failed image has stopped polling
C29_WitnessFailed ==
    \E p \in PollProcs :
        /\ pc[p] = "f_return"
        /\ loc[p].ret.status = "failed"
        /\ ~loc[p].ret.hx_trigger

----------------------------------------------------------------------------
(* Claim C30: what generate_thumbnail_webp returns or raises *)

\* C30: generate_thumbnail_webp returns bytes with a width and a height of
\* at least 1, or raises ThumbnailError; no other exception leaves it,
\* whatever the file and whatever the width and height of the image.
C30_OnlyThumbnailErrorEscapes ==
    \A p \in LibProcs :
        pc[p] = "t_return" =>
            \/ loc[p].ret.raised = "ThumbnailError"
            \/ /\ loc[p].ret.raised = ""
               /\ loc[p].ret.width_px >= 1
               /\ loc[p].ret.height_px >= 1

----------------------------------------------------------------------------
(* Claim C31: the size of the thumbnail *)

\* the smaller of two numbers
Min(a, b) == IF a < b THEN a ELSE b

\* C31: whenever generate_thumbnail_webp returns for a source of size
\* (w, h), the output height is min(h, 100) and the output width is
\* min(200, floor(w * 100 / h)) when h > 100 and min(200, w) otherwise.
C31_ThumbnailSize ==
    \A p \in LibProcs :
        (pc[p] = "t_return" /\ loc[p].ret.raised = "") =>
            LET w == loc[p].file.width
                h == loc[p].file.height
            IN  /\ loc[p].ret.height_px = Min(h, 100)
                /\ loc[p].ret.width_px =
                       IF h > 100 THEN Min(200, (w * 100) \div h) ELSE Min(200, w)

----------------------------------------------------------------------------
(* Claim C32: parsing sparse responses *)

\* C32: parse_openrouter_response returns for every well-formed response
\* in which any of the fields is absent or null, and the alt text of a
\* response without content is empty.
C32_ParseNeverRaises ==
    \A p \in LibProcs :
        pc[p] = "p_return" =>
            /\ loc[p].ret.raised = ""
            /\ loc[p].ret.parsed.alt_text # <<"None">>

----------------------------------------------------------------------------
(* Claim C33: the checksum does not depend on the chunks *)

\* C33: whatever the size of the chunks a file yields its bytes in,
\* generate_checksum gives the digest of the bytes taken as one chunk, which
\* is also the digest the upload request computes for the same bytes.
C33_ChecksumIgnoresChunking ==
    \A p \in LibProcs :
        pc[p] = "c_return" =>
            /\ loc[p].ret = HashChunks(7, <<loc[p].file.bytes>>)
            /\ loc[p].ret = generate_checksum(loc[p].file)

\* three bytes hashed in a chunk of two and a chunk of one
C33_Witness ==
    \E p \in LibProcs :
        /\ pc[p] = "c_return"
        /\ Len(loc[p].file.bytes) = 3
        /\ loc[p].file.chunk_size = 2

----------------------------------------------------------------------------
(* Claim C34: the storage path *)

\* the spellings of one extension
PngSpellings ==
    {<<"P", "N", "G">>, <<".", "p", "n", "g">>, <<"p", "n", "g">>,
     <<".", "P", "n", "G">>}

\* C34: for the same checksum and extension save_image_file writes to the
\* path get_image_path returns, which is the checksum, a dot and the
\* extension in lower case without leading dot; normalising the normalised
\* extension changes nothing, and 'PNG', '.png' and 'png' give one path.
C34_OnePathPerKey ==
    \A p \in LibProcs :
        pc[p] = "x_return" =>
            LET path == loc[p].ret.looked_up
                ext == path[3]
            IN  /\ loc[p].ret.saved = path
                /\ path[1] = loc[p].checksum
                /\ \A i \in 1..Len(ext) : ext[i] \notin {"P", "N", "G"}
                /\ ext # <<>> => ext[1] # "."
                /\ SafeExtension(ext) = ext
                /\ loc[p].file.extension \in PngSpellings => ext = <<"p", "n", "g">>

\* the paths for the extension '.PnG'
C34_Witness ==
    \E p \in LibProcs :
        /\ pc[p] = "x_return"
        /\ loc[p].file.extension = <<".", "P", "n", "G">>
        /\ loc[p].ret.saved = <<loc[p].checksum, ".", <<"p", "n", "g">>>>

----------------------------------------------------------------------------
(* Claim C35: a completed record under a race *)

\* C35: whatever the interleaving of the upload request's attempt and the
\* cron run's attempt on the same image, no step moves an alt-text row
\* that is 'completed' to 'failed' or 'pending', nor an image that is
\* 'completed' to 'failed' or 'pending'.
C35_CompletedIsKept ==
    [][/\ \A d \in DOMAIN recs :
             recs[d].status = "completed" =>
                 recs'[d].status \notin {"failed", "pending"}
       /\ \A d \in 1..Len(docs) :
             docs[d].processing_status = "completed" =>
                 docs'[d].processing_status \notin {"failed", "pending"}]_vars

----------------------------------------------------------------------------
(* Claim C36: every image reaches a terminal status *)

\* image d is stored and its processing_status is 'completed' or 'failed'
Terminal(d) ==
    /\ d <= Len(docs)
    /\ docs[d].processing_status \in {"completed", "failed"}

\* C36: with credentials in place, the cron job recurring, uploads that
\* stop arriving and vision calls that all end, every image record
\* eventually has processing_status 'completed' or 'failed'.
C36_EventuallyTerminal ==
    \A d \in 1..MaxRacedDocs : (d <= Len(docs)) ~> Terminal(d)

----------------------------------------------------------------------------
(* Claim C37: two uploads of the same new bytes at the same time *)

\* C37: when two upload requests for the same bytes are handled at the
\* same time, one image record exists for the checksum and no request ends
\* with the IntegrityError of the second INSERT.
C37_BothUploadsResolve ==
    /\ \A d, e \in 1..Len(docs) :
           docs[d].file_checksum = docs[e].file_checksum => d = e
    /\ \A p \in WebProcs \cup PollProcs :
           pc[p] = "u_return" => loc[p].message # "IntegrityError"

----------------------------------------------------------------------------
(* Claim C38: the stored pair when the first call of a sync attempt is posted *)

\* the upload request p has posted the first call of its sync attempt
FirstSyncCallPosted(p) ==
    /\ pc[p] = "await"
    /\ loc[p].path = "sync"
    /\ Len(loc[p].called) = 1

\* C38: while the first vision call of a sync attempt is in flight the
\* stored image is 'processing' with processing_started_at set and no
\* processing_error, and its alt-text row is stored with status
\* 'processing' and no error; no call of a sync attempt is in flight for an
\* image without an alt-text row.
C38_FirstCallSeesProcessingPair ==
    \A p \in WebProcs :
        /\ (pc[p] = "await" /\ loc[p].path = "sync") => loc[p].pk \in DOMAIN recs
        /\ FirstSyncCallPosted(p) =>
               /\ docs[loc[p].pk].processing_status = "processing"
               /\ docs[loc[p].pk].processing_started_at # NULL
               /\ docs[loc[p].pk].processing_error = NULL
               /\ recs[loc[p].pk].status = "processing"
               /\ recs[loc[p].pk].error = NULL

\* the first call of a sync attempt is in flight and the stored pair is
\* (processing, processing)
C38_Witness ==
    \E p \in WebProcs :
        /\ FirstSyncCallPosted(p)
        /\ loc[p].called[1].outcome = "inflight"
        /\ docs[loc[p].pk].processing_status = "processing"
        /\ docs[loc[p].pk].processing_started_at = Now
        /\ recs[loc[p].pk].status = "processing"

----------------------------------------------------------------------------
(* Claim C39: the last model's outcome decides a sync attempt *)

\* the sync attempt of process p has returned after every model of an order
\* of two or more has been called and has failed
AllOfSeveralFailed(p) ==
    /\ SyncReturned(p)
    /\ loc[p].path = "sync"
    /\ Len(loc[p].model_order) >= 2
    /\ Len(loc[p].called) = Len(loc[p].model_order)
    /\ \A i \in 1..Len(loc[p].called) : loc[p].called[i].outcome = "failed"

\* C39: when every model of an order of two or more has failed, the error
\* the sync attempt handles is that of the last model, whatever the earlier
\* models raised: if it is a timeout the image and its alt-text row end
\* (pending, pending), otherwise they end (failed, failed) with the text of
\* that error.
C39_LastModelDecides ==
    \A p \in WebProcs :
        AllOfSeveralFailed(p) =>
            LET order == loc[p].model_order
                last == loc[p].exc
                pair == <<docs[loc[p].pk].processing_status, recs[loc[p].pk].status>>
            IN  /\ last \in CallErrors(order[Len(order)])
                /\ IF last.type = "TimeoutException"
                   THEN /\ pair = <<"pending", "pending">>
                        /\ recs[loc[p].pk].error = Some(SyncTimeoutText)
                   ELSE /\ pair = <<"failed", "failed">>
                        /\ recs[loc[p].pk].error = Some(StrExc(last))
                        /\ docs[loc[p].pk].processing_error = Some(StrExc(last))

\* with order [A, B] both calls have failed, B's with an HTTP error, and the
\* attempt has returned leaving (failed, failed)
C39_Witness ==
    \E p \in WebProcs :
        /\ AllOfSeveralFailed(p)
        /\ loc[p].model_order = <<"A", "B">>
        /\ loc[p].exc = HTTPStatusError("B")
        /\ docs[loc[p].pk].processing_status = "failed"
        /\ recs[loc[p].pk].status = "failed"

====
